---- MODULE Spec2Model ----
(***************************************************************************)
(* Location chat server: rooms, room-scoped SSE broadcast, invites.        *)
(*                                                                         *)
(* The main machine (Spec) is the server of src/unnamed/part_000.  Every   *)
(* request handler runs to completion on the one JavaScript thread, so a   *)
(* handler is one action.  A POST handler mutates state only in the        *)
(* callback that runs after the body was read, so that callback is the     *)
(* action.  SrvSpec is the older server of src/server.js.                  *)
(***************************************************************************)
EXTENDS Integers, Sequences, FiniteSets, TLC

\* ------------------------------------------------------------------ bounds
MaxEvents == 1        \* events committed (message / location / remove) in a run of Spec
MaxTicks == 1         \* steps of the clock in a run of Spec
MaxInvites == 1       \* invites created in a run of Spec
MaxPosts == 202       \* events committed in a run of HistorySpec and of ReplaySpec
MaxPresence == 2      \* ReplaySpec: location and logout requests come among the first events
MaxLive == 1          \* ReplaySpec: events committed after the subscriber registered
MaxStream == 3        \* events committed in a run of StreamSpec
MaxScope == 2         \* events committed in a run of ScopeSpec
MaxMint == 2          \* invites created in a run of InviteSpec
MaxClock == 2         \* minutes that pass in a run of InviteSpec
MaxBoard == 3          \* events committed in a run of PresenceSpec
MaxGate == 1           \* events committed and invites created in a run of GateSpec
MaxSrvEvents == 1     \* events sent in a run of SrvSpec
MaxSrvInvites == 2    \* invites created in a run of SrvSpec
MaxReader == 2        \* events committed in a run of ReaderSpec
MaxChunks == 2        \* chunks buffered, and bytes received beyond the limit, per request
MaxLogout == 3        \* location and remove events committed among repeated logouts
MaxIdle == 2          \* events committed to a room whose subscribers come and go
MaxVariant == 2       \* messages committed in a run of VariantSpec
MaxSources == 3       \* EventSource objects the client creates
MaxTimers == 6        \* reconnect timers the client sets
MaxRecreate == 3      \* events committed in a run of RecreateSpec
MaxSnapshot == 2      \* events, invites and clock ticks, together, in a run of SnapshotSpec

\* ------------------------------------------------ JavaScript value helpers
\* null (a missing query parameter) and undefined (a missing property)
Null == "<null>"
Undefined == "<undefined>"

\* JS truthiness of a string-or-null value: null, undefined and '' are falsy.
Truthy(v) == v \notin {Null, Undefined, ""}

\* a || b
Or(a, b) == IF Truthy(a) THEN a ELSE b

\* A JS number is a record: a finite integer, NaN or +-Infinity.
Num(n) == [k |-> "num", v |-> n]
NaN == [k |-> "nan", v |-> 0]
Infinity == [k |-> "inf", v |-> 1]
IsNaN(x) == x.k = "nan"
IsFinite(x) == x.k = "num"

Digits == <<"0", "1", "2", "3", "4", "5", "6", "7", "8", "9">>
IsDigit(c) == \E i \in 1..10 : Digits[i] = c
DigitVal(c) == (CHOOSE i \in 1..10 : Digits[i] = c) - 1

\* The decimal digits a numeric parse consumes from position i of s.
RECURSIVE DigitRun(_, _, _)
DigitRun(s, i, acc) ==
    IF i > Len(s) \/ ~IsDigit(s[i]) THEN [n |-> acc, next |-> i]
    ELSE DigitRun(s, i + 1, acc * 10 + DigitVal(s[i]))

\* parseInt(s, 10) of a string given as a sequence of characters: an optional
\* sign, then the longest run of digits; NaN when there is no digit.
ParseInt(s) ==
    LET neg == Len(s) >= 1 /\ s[1] = "-"
        start == IF Len(s) >= 1 /\ s[1] \in {"-", "+"} THEN 2 ELSE 1
        run == DigitRun(s, start, 0)
    IN IF run.next = start THEN NaN
       ELSE Num(IF neg THEN 0 - run.n ELSE run.n)

\* A missing numeric query parameter: null, which a parse reads as the text
\* "null".
NullStr == <<"n", "u", "l", "l", "<null>">>
StrTruthy(s) == s # NullStr /\ s # <<>>

\* parseFloat(s): as ParseInt on the integer literals used here, and the
\* literal Infinity; parseFloat(null) is NaN.
ParseFloat(s) ==
    IF s = <<"I", "n", "f", "i", "n", "i", "t", "y">> THEN Infinity
    ELSE ParseInt(s)

\* Keys every object literal {} inherits from Object.prototype: obj[k] is
\* truthy for them although k is no own key.
ObjectPrototypeKeys == {"constructor"}

\* ------------------------------------------------------------------ inputs
RoomKeys == {"default", "r1"}
Handles == {"h1", "h2"}
TokenNames == <<"t1", "t2", "t3", "t4", "t5">>

\* ------------------------------------------------------------------- state
VARIABLES
    rooms,      \* own keys of the rooms object -> room {password, clients, messages, locations}
    invites,    \* own keys of the invites object -> invite
    now,        \* Date.now()
    conn,       \* per SSE response handle: free / open / broken / ended / closed
    stream,     \* per handle: the frames written to it
    resp,       \* the response to the latest request
    committed,  \* ghost: number of events committed so far (the next event id)
    log,        \* ghost: per room key, the events committed to the room since its creation
    joinedAt,   \* ghost: per handle, the length of its room's log when it registered
    issued,     \* ghost: number of invite tokens generated
    minted,     \* ghost: per generated token, the invite as it was created
    redeemed,   \* ghost: per generated token, the number of redemptions answered 200
    ticks,      \* ghost: number of clock steps
    req,        \* the POST request whose body readJson is reading
    chunks,     \* readJson: the lengths of the chunks buffered
    total,      \* readJson: the bytes received
    promise,    \* readJson: the promise it returned: none / pending / resolved / rejected
    failures,   \* ghost: the times the handler's catch ran for the request
    myRoomName, \* client: its roomName, the room logged in to, '' when logged out
    eventSource,        \* client: the EventSource in use, or 0 for null
    reconnectTimeoutId, \* client: the reconnect timer, or 0 for null
    reconnectDelay,     \* client: the delay of the next reconnect timer
    sources,    \* browser: the EventSource objects created -> connecting / open / closed
    timers      \* browser: the timers set -> [delay, state: pending / fired / cleared]

\* The server's registry, hub and invite store, the body reader of its POST
\* handlers, and the client.
server == <<rooms, invites, now, conn, stream, resp, committed, log, joinedAt,
            issued, minted, redeemed, ticks>>
reader == <<req, chunks, total, promise, failures>>
client == <<myRoomName, eventSource, reconnectTimeoutId, reconnectDelay, sources, timers>>

vars == <<server, reader, client>>

\* The invite store with its ghosts, and the clock with its ghost.
store == <<invites, issued, minted, redeemed>>
clock == <<now, ticks>>

MsPerMinute == 60000
HistoryLimit == 200
DefaultExpiryMinutes == 1440

EmptyMap == [k \in {} |-> Null]
MapPut(m, k, v) == [x \in DOMAIN m \cup {k} |-> IF x = k THEN v ELSE m[x]]
MapRemove(m, k) == [x \in DOMAIN m \ {k} |-> m[x]]

\* No POST body is being read.
NoRequest == [route |-> "none", body |-> Null, destroyed |-> FALSE, seen |-> Null]

NoResponse == [op |-> "none", status |-> 0, body |-> <<>>]

Init ==
    /\ rooms = EmptyMap
    /\ invites = EmptyMap
    /\ now = 0
    /\ conn = [h \in Handles |-> "free"]
    /\ stream = [h \in Handles |-> <<>>]
    /\ resp = NoResponse
    /\ committed = 0
    /\ log = [r \in RoomKeys |-> <<>>]
    /\ joinedAt = [h \in Handles |-> 0]
    /\ issued = 0
    /\ minted = EmptyMap
    /\ redeemed = EmptyMap
    /\ ticks = 0
    /\ req = NoRequest
    /\ chunks = <<>>
    /\ total = 0
    /\ promise = "none"
    /\ failures = 0
    /\ myRoomName = ""
    /\ eventSource = 0
    /\ reconnectTimeoutId = 0
    /\ reconnectDelay = 1000
    /\ sources = <<>>
    /\ timers = <<>>

\* res.writeHead(status); res.end(body)
Respond(op, status, body) == resp' = [op |-> op, status |-> status, body |-> body]

\* ------------------------------------------------------------ room registry
\* rooms[name] is truthy: an own key, or a key inherited from Object.prototype.
RoomTruthy(rms, name) == name \in DOMAIN rms \/ name \in ObjectPrototypeKeys

\* rooms[name].password; an inherited value has no password property.
RoomPassword(rms, name) == IF name \in DOMAIN rms THEN rms[name].password ELSE Undefined

NewRoom(pwd) == [password |-> pwd, clients |-> {}, messages |-> <<>>, locations |-> <<>>]

\* A lookup that takes the caller's password as the room's new password.
GetOrCreateRoomResetting(rms, roomName, password) ==
    LET name == Or(roomName, "default")
        pwd == Or(password, "")
    IN IF name \in DOMAIN rms
       THEN [ok |-> TRUE, rooms |-> [rms EXCEPT ![name].password = pwd], name |-> name]
       ELSE IF RoomTruthy(rms, name)
       THEN [ok |-> FALSE, rooms |-> rms, name |-> name]
       ELSE [ok |-> TRUE, rooms |-> MapPut(rms, name, NewRoom(pwd)), name |-> name]

\* A lookup that returns an existing room whatever the password.
GetOrCreateRoomOpen(rms, roomName, password) ==
    LET name == Or(roomName, "default")
        pwd == Or(password, "")
    IN IF name \in DOMAIN rms
       THEN [ok |-> TRUE, rooms |-> rms, name |-> name]
       ELSE IF RoomTruthy(rms, name)
       THEN [ok |-> FALSE, rooms |-> rms, name |-> name]
       ELSE [ok |-> TRUE, rooms |-> MapPut(rms, name, NewRoom(pwd)), name |-> name]

\* getOrCreateRoom: ok is FALSE for the null result; rooms is the registry
\* after the call; name is the key the call used.
GetOrCreateRoom(rms, roomName, password) ==
    LET name == Or(roomName, "default")
        pwd == Or(password, "")
    IN IF RoomTruthy(rms, name)
       THEN [ok |-> RoomPassword(rms, name) = pwd, rooms |-> rms, name |-> name]
       ELSE [ok |-> TRUE, rooms |-> MapPut(rms, name, NewRoom(pwd)), name |-> name]

\* ------------------------------------------------------------ broadcast hub
Frame(event, data) == [event |-> event, data |-> data]

\* The broadcast to every client of every room.
BroadcastGlobal(rms, strm, roomName, event, data, fail) ==
    [rooms |-> [r \in DOMAIN rms |-> [rms[r] EXCEPT !.clients = @ \ fail]],
     stream |-> [h \in Handles |->
                    IF \E r \in DOMAIN rms : h \in rms[r].clients \ fail
                    THEN Append(strm[h], Frame(event, data))
                    ELSE strm[h]]]

\* A broadcast that stops after the first client.
BroadcastFirstOnly(rms, strm, roomName, event, data, fail) ==
    IF roomName \notin DOMAIN rms \/ rms[roomName].clients = {}
    THEN [rooms |-> rms, stream |-> strm]
    ELSE LET first == CHOOSE h \in rms[roomName].clients : TRUE
         IN [rooms |-> [rms EXCEPT ![roomName].clients = @ \ (fail \cap {first})],
             stream |-> [h \in Handles |->
                            IF h = first /\ h \notin fail
                            THEN Append(strm[h], Frame(event, data))
                            ELSE strm[h]]]

\* A broadcast that a failed write aborts: no client is written to.
BroadcastAbortedByFailure(rms, strm, roomName, event, data, fail) ==
    IF roomName \notin DOMAIN rms THEN [rooms |-> rms, stream |-> strm]
    ELSE LET clients == rms[roomName].clients
         IN [rooms |-> [rms EXCEPT ![roomName].clients = clients \ fail],
             stream |-> [h \in Handles |->
                            IF h \in clients /\ fail = {}
                            THEN Append(strm[h], Frame(event, data))
                            ELSE strm[h]]]

\* A broadcast that writes the frame ahead of the frame written last.
BroadcastOutOfOrder(rms, strm, roomName, event, data, fail) ==
    IF roomName \notin DOMAIN rms THEN [rooms |-> rms, stream |-> strm]
    ELSE LET clients == rms[roomName].clients
         IN [rooms |-> [rms EXCEPT ![roomName].clients = clients \ fail],
             stream |-> [h \in Handles |->
                            IF h \notin clients \ fail THEN strm[h]
                            ELSE IF Len(strm[h]) < 2 THEN Append(strm[h], Frame(event, data))
                            ELSE SubSeq(strm[h], 1, Len(strm[h]) - 1)
                                 \o <<Frame(event, data), strm[h][Len(strm[h])]>>]]

\* broadcast(roomName, event, data): both writes of the frame go to every
\* client; a client in fail is one whose res.write throws, which is caught
\* and the client deleted from the set.
Broadcast(rms, strm, roomName, event, data, fail) ==
    IF roomName \notin DOMAIN rms THEN [rooms |-> rms, stream |-> strm]
    ELSE LET clients == rms[roomName].clients
         IN [rooms |-> [rms EXCEPT ![roomName].clients = clients \ fail],
             stream |-> [h \in Handles |->
                            IF h \in clients \ fail
                            THEN Append(strm[h], Frame(event, data))
                            ELSE strm[h]]]

\* The clients of a room whose connection is lost though its close event has
\* not been delivered yet: a write to one of them may throw.
MayThrow(rms, roomName) ==
    IF roomName \in DOMAIN rms
    THEN {h \in rms[roomName].clients : conn[h] = "broken"}
    ELSE {}

\* ---------------------------------------------------------------- /events
\* A replay that writes the locations before the messages.
ReplayLocationsFirst(room) ==
    [i \in 1..Len(room.locations) |-> Frame("location", room.locations[i])]
    \o [i \in 1..Len(room.messages) |-> Frame("message", room.messages[i])]

\* The replay written to a new subscriber: every stored message, then every
\* stored location, in the order the keys were inserted.
Replay(room) ==
    [i \in 1..Len(room.messages) |-> Frame("message", room.messages[i])]
    \o [i \in 1..Len(room.locations) |-> Frame("location", room.locations[i])]

\* res.write('\n')
Preamble == Frame("", [raw |-> "\n"])

Events(h, room, password) ==
    LET roomName == Or(room, "default")
        pwd == Or(password, "")
        got == GetOrCreateRoom(rooms, roomName, pwd)
    IN /\ conn[h] = "free"
       /\ IF ~got.ok
          THEN /\ Respond("events", 403, <<"Invalid room password">>)
               /\ UNCHANGED <<rooms, conn, stream, joinedAt>>
          ELSE /\ stream' = [stream EXCEPT ![h] = <<Preamble>> \o Replay(got.rooms[got.name])]
               /\ rooms' = [got.rooms EXCEPT ![got.name].clients = @ \cup {h}]
               /\ conn' = [conn EXCEPT ![h] = "open"]
               /\ joinedAt' = [joinedAt EXCEPT ![h] = Len(log[got.name])]
               /\ Respond("events", 200, <<>>)
       /\ UNCHANGED <<store, clock, committed, log, reader, client>>

\* A close that leaves the handle in the client set.
CloseWithoutRemoval(h) ==
    /\ conn[h] \in {"open", "broken", "ended"}
    /\ conn' = [conn EXCEPT ![h] = "closed"]
    /\ UNCHANGED <<store, clock, rooms, stream, resp, committed, log, joinedAt, reader, client>>

\* A close that also drops a room left without subscribers.
CloseDroppingIdleRoom(h) ==
    LET left == [r \in DOMAIN rooms |-> [rooms[r] EXCEPT !.clients = @ \ {h}]]
        kept == {r \in DOMAIN left : left[r].clients # {} \/ h \notin rooms[r].clients}
    IN /\ conn[h] \in {"open", "broken", "ended"}
       /\ conn' = [conn EXCEPT ![h] = "closed"]
       /\ rooms' = [r \in kept |-> left[r]]
       /\ UNCHANGED <<store, clock, stream, resp, committed, log, joinedAt, reader, client>>

\* req.on('close'): the handler deletes the handle from the client set of the
\* room object it subscribed to.  A handle is added to one client set, once,
\* so deleting it from whichever registered room holds it is that deletion;
\* when the room object was deleted meanwhile nothing in the registry changes.
Close(h) ==
    /\ conn[h] \in {"open", "broken", "ended"}
    /\ conn' = [conn EXCEPT ![h] = "closed"]
    /\ rooms' = [r \in DOMAIN rooms |-> [rooms[r] EXCEPT !.clients = @ \ {h}]]
    /\ UNCHANGED <<store, clock, stream, resp, committed, log, joinedAt, reader, client>>

\* The peer of an open stream goes away; its close event is still to come.
Break(h) ==
    /\ conn[h] = "open"
    /\ conn' = [conn EXCEPT ![h] = "broken"]
    /\ UNCHANGED <<store, clock, rooms, stream, resp, committed, log, joinedAt, reader, client>>

\* --------------------------------------------------------------- /message
\* A history that evicts nothing.
PushMessageUnbounded(messages, msg) == Append(messages, msg)

\* messages.push(msg); if (messages.length > 200) messages.shift()
PushMessage(messages, msg) ==
    LET pushed == Append(messages, msg)
    IN IF Len(pushed) > HistoryLimit THEN Tail(pushed) ELSE pushed

\* The part of the two /message handlers after the parameters are read.
PostMessage(op, room, password, name, text, fail) ==
    LET roomName == Or(room, "default")
        got == GetOrCreateRoom(rooms, roomName, Or(password, ""))
    IN IF ~got.ok
       THEN /\ Respond(op, 403, <<"Invalid room password">>)
            /\ UNCHANGED <<rooms, stream, committed, log>>
       ELSE IF Truthy(name) /\ Truthy(text)
       THEN LET msg == [name |-> name, text |-> text, time |-> now, id |-> committed]
                stored == [got.rooms EXCEPT ![got.name].messages = PushMessage(@, msg)]
                out == Broadcast(stored, stream, roomName, "message", msg, fail)
            IN /\ rooms' = out.rooms
               /\ stream' = out.stream
               /\ committed' = committed + 1
               /\ log' = [log EXCEPT ![got.name] = Append(@, Frame("message", msg))]
               /\ Respond(op, 200, <<"ok">>)
       ELSE /\ rooms' = got.rooms
            /\ Respond(op, 200, <<"ok">>)
            /\ UNCHANGED <<stream, committed, log>>

MessageGet(room, password, name, text, fail) ==
    /\ fail \subseteq MayThrow(rooms, Or(room, "default"))
    /\ PostMessage("GET /message", room, password, name, text, fail)
    /\ UNCHANGED <<store, clock, conn, joinedAt, reader, client>>

\* POST /message: body is the parsed JSON object; valid is FALSE when readJson
\* rejects.
MessagePost(body, fail) ==
    /\ IF ~body.valid
       THEN /\ fail = {}
            /\ Respond("POST /message", 400, <<"Invalid JSON">>)
            /\ UNCHANGED <<rooms, stream, committed, log>>
       ELSE /\ fail \subseteq MayThrow(rooms, Or(body.room, "default"))
            /\ PostMessage("POST /message", body.room, body.password, body.name, body.text, fail)
    /\ UNCHANGED <<store, clock, conn, joinedAt, reader, client>>

\* -------------------------------------------------------------- /location
\* A board that keeps every record it is given.
SetLocationAppending(locations, loc) == Append(locations, loc)

\* roomObj.locations[name] = loc: an existing key keeps its place in the
\* object's key order, a new key goes last.
SetLocation(locations, loc) ==
    IF \E i \in 1..Len(locations) : locations[i].name = loc.name
    THEN [i \in 1..Len(locations) |->
            IF locations[i].name = loc.name THEN loc ELSE locations[i]]
    ELSE Append(locations, loc)

\* roomObj.locations[name] is truthy: an own key or an inherited one.
LocationTruthy(locations, name) ==
    \/ \E i \in 1..Len(locations) : locations[i].name = name
    \/ name \in ObjectPrototypeKeys

\* A deletion that leaves the board as it is.
DeleteLocationKeeping(locations, name) == locations

\* delete roomObj.locations[name]
DeleteLocation(locations, name) ==
    SelectSeq(locations, LAMBDA l : l.name # name)

\* typeof x === 'number'
IsNumber(x) == x.k \in {"num", "nan", "inf"}
NotNumber == [k |-> "other", v |-> 0]

\* The part of the two /location handlers after the parameters are read;
\* valid is the handler's own test of name, lat and lon.
PostLocation(op, room, password, name, lat, lon, valid, fail) ==
    LET roomName == Or(room, "default")
        got == GetOrCreateRoom(rooms, roomName, Or(password, ""))
    IN IF ~got.ok
       THEN /\ Respond(op, 403, <<"Invalid room password">>)
            /\ UNCHANGED <<rooms, stream, committed, log>>
       ELSE IF valid
       THEN LET loc == [name |-> name, lat |-> lat, lon |-> lon, time |-> now, id |-> committed]
                stored == [got.rooms EXCEPT ![got.name].locations = SetLocation(@, loc)]
                out == Broadcast(stored, stream, roomName, "location", loc, fail)
            IN /\ rooms' = out.rooms
               /\ stream' = out.stream
               /\ committed' = committed + 1
               /\ log' = [log EXCEPT ![got.name] = Append(@, Frame("location", loc))]
               /\ Respond(op, 200, <<"ok">>)
       ELSE /\ rooms' = got.rooms
            /\ Respond(op, 200, <<"ok">>)
            /\ UNCHANGED <<stream, committed, log>>

LocationGet(room, password, name, lat, lon, fail) ==
    LET latParam == ParseFloat(lat)
        lonParam == ParseFloat(lon)
    IN /\ fail \subseteq MayThrow(rooms, Or(room, "default"))
       /\ PostLocation("GET /location", room, password, name, latParam, lonParam,
                       Truthy(name) /\ ~IsNaN(latParam) /\ ~IsNaN(lonParam), fail)
       /\ UNCHANGED <<store, clock, conn, joinedAt, reader, client>>

LocationPost(body, fail) ==
    /\ IF ~body.valid
       THEN /\ fail = {}
            /\ Respond("POST /location", 400, <<"Invalid JSON">>)
            /\ UNCHANGED <<rooms, stream, committed, log>>
       ELSE /\ fail \subseteq MayThrow(rooms, Or(body.room, "default"))
            /\ PostLocation("POST /location", body.room, body.password, body.name,
                            body.lat, body.lon,
                            Truthy(body.name) /\ IsNumber(body.lat) /\ IsNumber(body.lon), fail)
    /\ UNCHANGED <<store, clock, conn, joinedAt, reader, client>>

\* ---------------------------------------------------------------- /logout
Logout(room, password, name, fail) ==
    LET roomName == Or(room, "default")
        got == GetOrCreateRoom(rooms, roomName, Or(password, ""))
    IN /\ fail \subseteq MayThrow(rooms, roomName)
       /\ IF ~got.ok
          THEN /\ Respond("logout", 403, <<"Invalid room password">>)
               /\ UNCHANGED <<rooms, stream, committed, log>>
          ELSE IF Truthy(name) /\ LocationTruthy(got.rooms[got.name].locations, name)
          THEN LET gone == [name |-> name, id |-> committed]
                   removed == [got.rooms EXCEPT ![got.name].locations = DeleteLocation(@, name)]
                   out == Broadcast(removed, stream, roomName, "remove", gone, fail)
               IN /\ rooms' = out.rooms
                  /\ stream' = out.stream
                  /\ committed' = committed + 1
                  /\ log' = [log EXCEPT ![got.name] = Append(@, Frame("remove", gone))]
                  /\ Respond("logout", 200, <<"ok">>)
          ELSE /\ rooms' = got.rooms
               /\ Respond("logout", 200, <<"ok">>)
               /\ UNCHANGED <<stream, committed, log>>
       /\ UNCHANGED <<store, clock, conn, joinedAt, reader, client>>

\* ----------------------------------------------------------------- /rooms
\* Object.keys(rooms), as a sequence (the key order is not modelled).
RECURSIVE KeyList(_)
KeyList(keys) ==
    IF keys = {} THEN <<>>
    ELSE LET k == CHOOSE x \in keys : TRUE IN <<k>> \o KeyList(keys \ {k})

\* A listing that always names the default room.
RoomsWithDefault ==
    /\ Respond("rooms", 200, KeyList(DOMAIN rooms \cup {"default"}))
    /\ UNCHANGED <<store, clock, rooms, conn, stream, committed, log, joinedAt, reader, client>>

Rooms ==
    /\ Respond("rooms", 200, KeyList(DOMAIN rooms))
    /\ UNCHANGED <<store, clock, rooms, conn, stream, committed, log, joinedAt, reader, client>>

\* ------------------------------------------------------------ static files
\* Any path no handler matched is served from the project directory:
\* fs.readFile fails (404 'Not found') or yields the file (200).  The URL
\* parser has already resolved dot segments, so the path stays inside the
\* directory.  found is whether a readable file of that name exists.
ServeStatic(pathname, found) ==
    /\ IF ~found
       THEN Respond("static", 404, <<"Not found">>)
       ELSE Respond("static", 200, <<pathname>>)
    /\ UNCHANGED <<store, clock, rooms, conn, stream, committed, log, joinedAt, reader, client>>

\* ------------------------------------------------------------ /deleteRoom
\* A deletion that is refused while the room has clients.
DeleteRoomUnlessOccupied(room, password) ==
    LET roomName == Or(room, "default")
        pwd == Or(password, "")
    IN /\ IF ~RoomTruthy(rooms, roomName)
          THEN /\ Respond("deleteRoom", 404, <<"Room not found">>)
               /\ UNCHANGED <<rooms, log>>
          ELSE IF RoomPassword(rooms, roomName) # pwd
          THEN /\ Respond("deleteRoom", 403, <<"Invalid room password">>)
               /\ UNCHANGED <<rooms, log>>
          ELSE IF rooms[roomName].clients # {}
          THEN /\ Respond("deleteRoom", 409, <<"Room has active users">>)
               /\ UNCHANGED <<rooms, log>>
          ELSE /\ rooms' = MapRemove(rooms, roomName)
               /\ log' = [log EXCEPT ![roomName] = <<>>]
               /\ Respond("deleteRoom", 200, <<"deleted">>)
       /\ UNCHANGED <<store, clock, conn, stream, committed, joinedAt, reader, client>>

\* A deletion that ends the streams but leaves the room's record in place.
DeleteRoomKeepingHistory(room, password) ==
    LET roomName == Or(room, "default")
        pwd == Or(password, "")
    IN /\ IF ~RoomTruthy(rooms, roomName)
          THEN /\ Respond("deleteRoom", 404, <<"Room not found">>)
               /\ UNCHANGED <<rooms, conn, log>>
          ELSE IF RoomPassword(rooms, roomName) # pwd
          THEN /\ Respond("deleteRoom", 403, <<"Invalid room password">>)
               /\ UNCHANGED <<rooms, conn, log>>
          ELSE /\ conn' = [h \in Handles |->
                             IF h \in rooms[roomName].clients THEN "ended" ELSE conn[h]]
               /\ rooms' = [rooms EXCEPT ![roomName].clients = {}]
               /\ log' = [log EXCEPT ![roomName] = <<>>]
               /\ Respond("deleteRoom", 200, <<"deleted">>)
       /\ UNCHANGED <<store, clock, stream, committed, joinedAt, reader, client>>

\* A deletion that also revokes the invites issued for the room.
DeleteRoomRevokingInvites(room, password) ==
    LET roomName == Or(room, "default")
        pwd == Or(password, "")
    IN IF ~RoomTruthy(rooms, roomName)
       THEN /\ Respond("deleteRoom", 404, <<"Room not found">>)
            /\ UNCHANGED <<store, clock, rooms, conn, stream, committed, log, joinedAt,
                           reader, client>>
       ELSE IF RoomPassword(rooms, roomName) # pwd
       THEN /\ Respond("deleteRoom", 403, <<"Invalid room password">>)
            /\ UNCHANGED <<store, clock, rooms, conn, stream, committed, log, joinedAt,
                           reader, client>>
       ELSE /\ conn' = [h \in Handles |->
                          IF h \in rooms[roomName].clients THEN "ended" ELSE conn[h]]
            /\ rooms' = MapRemove(rooms, roomName)
            /\ log' = [log EXCEPT ![roomName] = <<>>]
            /\ invites' = [t \in {u \in DOMAIN invites : invites[u].room # roomName}
                              |-> invites[t]]
            /\ Respond("deleteRoom", 200, <<"deleted">>)
            /\ UNCHANGED <<issued, minted, redeemed, clock, stream, committed, joinedAt,
                           reader, client>>

DeleteRoom(room, password) ==
    LET roomName == Or(room, "default")
        pwd == Or(password, "")
    IN /\ IF ~RoomTruthy(rooms, roomName)
          THEN /\ Respond("deleteRoom", 404, <<"Room not found">>)
               /\ UNCHANGED <<rooms, conn, log>>
          ELSE IF RoomPassword(rooms, roomName) # pwd
          THEN /\ Respond("deleteRoom", 403, <<"Invalid room password">>)
               /\ UNCHANGED <<rooms, conn, log>>
          ELSE /\ conn' = [h \in Handles |->
                             IF h \in rooms[roomName].clients THEN "ended" ELSE conn[h]]
               /\ rooms' = MapRemove(rooms, roomName)
               /\ log' = [log EXCEPT ![roomName] = <<>>]
               /\ Respond("deleteRoom", 200, <<"deleted">>)
       /\ UNCHANGED <<store, clock, stream, committed, joinedAt, reader, client>>

\* A password check that goes through getOrCreateRoom.
CheckRoomCreating(room, password) ==
    LET got == GetOrCreateRoom(rooms, Or(room, "default"), Or(password, ""))
    IN /\ rooms' = got.rooms
       /\ IF got.ok THEN Respond("checkRoom", 200, <<"ok">>)
          ELSE Respond("checkRoom", 403, <<"invalid">>)
       /\ UNCHANGED <<store, clock, conn, stream, committed, log, joinedAt, reader, client>>

\* ------------------------------------------------------------- /checkRoom
CheckRoom(room, password) ==
    LET roomName == Or(room, "default")
        pwd == Or(password, "")
    IN /\ IF ~RoomTruthy(rooms, roomName)
          THEN Respond("checkRoom", 404, <<"not found">>)
          ELSE IF RoomPassword(rooms, roomName) # pwd
          THEN Respond("checkRoom", 403, <<"invalid">>)
          ELSE Respond("checkRoom", 200, <<"ok">>)
       /\ UNCHANGED <<store, clock, rooms, conn, stream, committed, log, joinedAt,
                      reader, client>>

\* --------------------------------------------------------------- invites
\* isNaN(maxUses) || maxUses < 1 ? 1 : maxUses
\* A clamp that replaces only an unparsable value.
ClampMaxUsesNaNOnly(maxUses) == IF IsNaN(maxUses) THEN 1 ELSE maxUses.v

ClampMaxUses(maxUses) == IF IsNaN(maxUses) \/ maxUses.v < 1 THEN 1 ELSE maxUses.v

\* Date.now() + expiryMinutes * 60 * 1000
ExpiryOf(t, expiryMinutes) ==
    IF IsNaN(expiryMinutes) THEN NaN ELSE Num(t + expiryMinutes.v * 60 * 1000)

\* An invite that is removed only after one use too many.
UseInviteOffByOne(store0, token) ==
    IF store0[token].uses + 1 > store0[token].maxUses
    THEN MapRemove(store0, token)
    ELSE [store0 EXCEPT ![token].uses = @ + 1]

\* An expiry check that never fires.
ExpiredNever(t, expiry) == FALSE

\* Date.now() > invite.expiry; a comparison with NaN is false.
Expired(t, expiry) == IsFinite(expiry) /\ t > expiry.v

\* crypto.randomBytes(16).toString('hex'): a token not generated before.
NewToken == TokenNames[issued + 1]

InviteCreate(room, password, expiryParam, maxUsesParam) ==
    LET pwd == Or(password, "")
        expiryMinutes == IF StrTruthy(expiryParam) THEN ParseInt(expiryParam)
                         ELSE Num(DefaultExpiryMinutes)
        maxUses == IF StrTruthy(maxUsesParam) THEN ParseInt(maxUsesParam) ELSE Num(1)
    IN /\ IF ~Truthy(room)
          THEN /\ Respond("invite/create", 400, <<"Missing room">>)
               /\ UNCHANGED store
          ELSE IF ~RoomTruthy(rooms, room)
          THEN /\ Respond("invite/create", 404, <<"Room not found">>)
               /\ UNCHANGED store
          ELSE IF RoomPassword(rooms, room) # pwd
          THEN /\ Respond("invite/create", 403, <<"Invalid room password">>)
               /\ UNCHANGED store
          ELSE LET invite == [room |-> room, password |-> pwd,
                              expiry |-> ExpiryOf(now, expiryMinutes),
                              maxUses |-> ClampMaxUses(maxUses), uses |-> 0]
               IN /\ invites' = MapPut(invites, NewToken, invite)
                  /\ issued' = issued + 1
                  /\ minted' = MapPut(minted, NewToken, invite)
                  /\ redeemed' = MapPut(redeemed, NewToken, 0)
                  /\ Respond("invite/create", 200, <<NewToken, "/invite?token=", NewToken>>)
       /\ UNCHANGED <<clock, rooms, conn, stream, committed, log, joinedAt, reader, client>>

\* invites[token] is truthy: an own key, or a key inherited from Object.prototype.
InviteTruthy(token) == token \in DOMAIN invites \/ token \in ObjectPrototypeKeys

\* invite.uses += 1; if (invite.uses >= invite.maxUses) delete invites[token]
UseInvite(store0, token) ==
    IF store0[token].uses + 1 >= store0[token].maxUses
    THEN MapRemove(store0, token)
    ELSE [store0 EXCEPT ![token].uses = @ + 1]

\* A redemption that answers with the room's present password and refuses
\* when the room is gone.
InviteRedeemFromRegistry(token) ==
    /\ IF token \notin DOMAIN invites \/ invites[token].room \notin DOMAIN rooms
       THEN /\ Respond("invite", 404, <<"Invalid token">>)
            /\ UNCHANGED <<invites, redeemed>>
       ELSE /\ invites' = UseInvite(invites, token)
            /\ redeemed' = [redeemed EXCEPT ![token] = @ + 1]
            /\ Respond("invite", 200,
                       <<invites[token].room, rooms[invites[token].room].password>>)
    /\ UNCHANGED <<clock, rooms, conn, stream, committed, log, joinedAt, issued, minted,
                   reader, client>>

\* GET /invite and GET /invite/join
InviteRedeem(token) ==
    /\ IF ~Truthy(token) \/ ~InviteTruthy(token)
       THEN /\ Respond("invite", 404, <<"Invalid token">>)
            /\ UNCHANGED <<invites, redeemed>>
       ELSE IF token \notin DOMAIN invites
       \* an inherited value: its expiry and maxUses are undefined, so neither
       \* comparison holds, and its room and password are undefined
       THEN /\ Respond("invite", 200, <<Undefined, Undefined>>)
            /\ UNCHANGED <<invites, redeemed>>
       ELSE LET invite == invites[token]
            IN IF Expired(now, invite.expiry)
               THEN /\ invites' = MapRemove(invites, token)
                    /\ Respond("invite", 410, <<"Invite expired">>)
                    /\ UNCHANGED redeemed
               ELSE /\ invites' = UseInvite(invites, token)
                    /\ redeemed' = [redeemed EXCEPT ![token] = @ + 1]
                    /\ Respond("invite", 200, <<invite.room, invite.password>>)
    /\ UNCHANGED <<clock, rooms, conn, stream, committed, log, joinedAt, issued, minted,
                   reader, client>>

\* ------------------------------------------------------------------ clock
Tick ==
    /\ now' = now + MsPerMinute
    /\ ticks' = ticks + 1
    /\ UNCHANGED <<store, rooms, conn, stream, resp, committed, log, joinedAt, reader, client>>

\* ------------------------------------------------------------ request sets
InvalidJson == [valid |-> FALSE]
MessageBody(room, password, name, text) ==
    [valid |-> TRUE, room |-> room, password |-> password, name |-> name, text |-> text]
LocationBody(room, password, name, lat, lon) ==
    [valid |-> TRUE, room |-> room, password |-> password, name |-> name,
     lat |-> lat, lon |-> lon]

\* ------------------------------------------------- the server, all handlers
\* One room besides the inherited key, one subscriber, both passwords.
RoomParams == {Null, "constructor"}
PasswordParams == {Null, "p"}
TokenParams == {Null, "constructor", "t1", "t2"}

Next ==
    \/ \E room \in RoomParams, password \in PasswordParams : Events("h1", room, password)
    \/ \E h \in Handles : Close(h)
    \/ \E h \in Handles : Break(h)
    \/ \E room \in RoomParams, password \in PasswordParams, fail \in SUBSET Handles :
          MessageGet(room, password, "Bob", "Hi", fail) /\ committed' <= MaxEvents
    \/ \E room \in RoomParams, password \in PasswordParams, fail \in SUBSET Handles :
          \E body \in {InvalidJson, MessageBody(room, password, "Bob", "Hi")} :
             MessagePost(body, fail) /\ committed' <= MaxEvents
    \/ \E room \in RoomParams, password \in PasswordParams, fail \in SUBSET Handles,
          c \in {<<<<"1">>, <<"2">>>>, <<<<"x">>, <<"2">>>>} :
          LocationGet(room, password, "Bob", c[1], c[2], fail) /\ committed' <= MaxEvents
    \/ \E room \in RoomParams, password \in PasswordParams, fail \in SUBSET Handles,
          c \in {<<Num(3), Num(4)>>, <<NotNumber, Num(2)>>} :
          \E body \in {InvalidJson, LocationBody(room, password, "Bob", c[1], c[2])} :
             LocationPost(body, fail) /\ committed' <= MaxEvents
    \/ \E room \in RoomParams, password \in PasswordParams, fail \in SUBSET Handles :
          Logout(room, password, "Bob", fail) /\ committed' <= MaxEvents
    \/ Rooms
    \/ \E room \in RoomParams, password \in PasswordParams : DeleteRoom(room, password)
    \/ \E room \in RoomParams, password \in PasswordParams : CheckRoom(room, password)
    \/ \E room \in RoomParams, password \in PasswordParams,
          maxUsesParam \in {NullStr, <<"2">>} :
          InviteCreate(room, password, <<"0">>, maxUsesParam) /\ issued' <= MaxInvites
    \/ \E token \in TokenParams : InviteRedeem(token)
    \/ Tick /\ ticks' <= MaxTicks

Spec == Init /\ [][Next]_vars

\* ------------------------------------------------------- message history
\* Posts to one room, up to and beyond the history limit.
HistoryNext ==
    \/ \E password \in PasswordParams, name \in {Null, "Bob"} :
          MessageGet(Null, password, name, "Hi", {}) /\ committed' <= MaxPosts
    \/ MessagePost(MessageBody("default", Null, "Bob", "Hi"), {}) /\ committed' <= MaxPosts
    \/ DeleteRoom(Null, Null)

HistorySpec == Init /\ [][HistoryNext]_vars

Min(a, b) == IF a < b THEN a ELSE b

\* The payloads of the frames of one event name in a log, in commit order.
LogData(lg, event) ==
    LET hits == SelectSeq(lg, LAMBDA f : f.event = event)
    IN [i \in 1..Len(hits) |-> hits[i].data]
LogMessages(lg) == LogData(lg, "message")

\* C1: a room's history is the last min(N, 200) of the N messages accepted
\* into it, in arrival order, and is never longer than 200.
HistoryIsRecentAccepted ==
    \A r \in DOMAIN rooms :
        LET accepted == LogMessages(log[r])
            n == Len(accepted)
            kept == rooms[r].messages
        IN /\ Len(kept) = Min(n, HistoryLimit)
           /\ Len(kept) <= HistoryLimit
           /\ kept = SubSeq(accepted, n - Len(kept) + 1, n)

\* More than 200 messages were accepted into a room: the oldest is evicted.
HistoryEvicted ==
    \E r \in DOMAIN rooms :
        /\ Len(LogMessages(log[r])) = HistoryLimit + 2
        /\ Len(rooms[r].messages) = HistoryLimit
        /\ rooms[r].messages[1] = LogMessages(log[r])[3]

\* ------------------------------------------------------- replay to a joiner
\* One room and one subscriber; presence changes come among the first events,
\* messages up to and beyond the history limit.
ReplayNext ==
    \/ /\ conn["h1"] = "free" \/ Len(log["default"]) < joinedAt["h1"] + MaxLive
       /\ MessageGet(Null, Null, "Bob", "Hi", {})
       /\ committed' <= MaxPosts
    \/ /\ committed < MaxPresence
       /\ \E name \in {"Alice", "Bob"}, c \in {<<<<"1">>, <<"2">>>>, <<<<"3">>, <<"4">>>>} :
             LocationGet(Null, Null, name, c[1], c[2], {})
    \/ /\ committed < MaxPresence
       /\ Logout(Null, Null, "Bob", {})
    \/ Events("h1", Null, Null)

ReplaySpec == Init /\ [][ReplayNext]_vars

\* The last n elements of a sequence (all of it when it is shorter).
LastN(seq, n) == SubSeq(seq, Len(seq) - Min(n, Len(seq)) + 1, Len(seq))

\* The presence board a log leaves: for each name the payload of its latest
\* location event, unless a remove event for the name came after it.
PresenceOf(lg) ==
    {lg[i].data : i \in {j \in 1..Len(lg) :
        /\ lg[j].event = "location"
        /\ \A k \in (j + 1)..Len(lg) :
              lg[k].event \in {"location", "remove"} => lg[k].data.name # lg[j].data.name}}

\* The room whose client set holds a handle.
RoomOf(h) == CHOOSE r \in DOMAIN rooms : h \in rooms[r].clients
Subscribers == {h \in Handles : \E r \in DOMAIN rooms : h \in rooms[r].clients}

\* What was committed to a subscriber's room before it registered.
Before(h) == SubSeq(log[RoomOf(h)], 1, joinedAt[h])

\* A stream begins with the preamble, then the given messages in order, then
\* one location frame per presence entry, and no frame after those repeats
\* an event committed before the subscriber registered.
ReplayIs(h, msgs, presence) ==
    LET s == stream[h]
        n == Len(msgs)
        k == Cardinality(presence)
    IN /\ Len(s) >= 1 + n + k
       /\ s[1] = Preamble
       /\ \A i \in 1..n : s[1 + i] = Frame("message", msgs[i])
       /\ {s[1 + n + j] : j \in 1..k} = {Frame("location", d) : d \in presence}
       /\ \A i \in (2 + n + k)..Len(s) :
             \A j \in 1..joinedAt[h] : s[i].data.id # log[RoomOf(h)][j].data.id

\* C2 as amended: a subscriber's stream starts with the min(N, 200) most
\* recent of the N messages posted before it connected, in append order, then
\* one location frame per name with a presence entry, carrying the name's
\* latest value, all before any live event.
ReplayIsHistoryThenPresence ==
    \A h \in Subscribers :
        ReplayIs(h, LastN(LogMessages(Before(h)), HistoryLimit), PresenceOf(Before(h)))

\* C2 as claimed: the replay holds all N messages posted before the
\* subscriber connected.
ReplayIsAllMessagesThenPresence ==
    \A h \in Subscribers : ReplayIs(h, LogMessages(Before(h)), PresenceOf(Before(h)))

\* A subscriber connected after two messages while two names had a presence
\* entry, and got the preamble and the four frames.
ReplayedTwoNames ==
    \E h \in Subscribers :
        /\ Len(LogMessages(Before(h))) = 2
        /\ Cardinality(PresenceOf(Before(h))) = 2
        /\ Len(stream[h]) = 5

\* ------------------------------------------------- subscribers of one room
\* Two subscribers come and go while events are committed to one room; writes
\* to a lost connection may throw.
StreamNext ==
    \/ \E h \in Handles : Events(h, Null, Null)
    \/ \E h \in Handles : Close(h)
    \/ \E h \in Handles : Break(h)
    \/ \E fail \in SUBSET Handles :
          MessageGet(Null, Null, "Bob", "Hi", fail) /\ committed' <= MaxStream
    \/ \E fail \in SUBSET Handles,
          a \in {<<"Alice", <<"1">>, <<"2">>>>, <<"Bob", <<"3">>, <<"4">>>>} :
          LocationGet(Null, Null, a[1], a[2], a[3], fail) /\ committed' <= MaxStream
    \/ \E fail \in SUBSET Handles :
          Logout(Null, Null, "Bob", fail) /\ committed' <= MaxStream

StreamSpec == Init /\ [][StreamNext]_vars

\* The events committed to a subscriber's room since it registered.
Since(h) == SubSeq(log[RoomOf(h)], joinedAt[h] + 1, Len(log[RoomOf(h)]))

\* The number of frames of a subscriber's replay, preamble included.
ReplayLen(h) ==
    1 + Min(Len(LogMessages(Before(h))), HistoryLimit) + Cardinality(PresenceOf(Before(h)))

\* No event is written twice to a stream.
NoRepeat(s) == \A i, j \in 2..Len(s) : i # j => s[i].data.id # s[j].data.id

\* C3: a subscriber's stream is its replay followed by exactly the events
\* committed to its room since it registered, each once and in commit order;
\* no stream carries an event twice.
StreamIsReplayThenLive ==
    /\ \A h \in Subscribers :
          /\ Len(stream[h]) = ReplayLen(h) + Len(Since(h))
          /\ SubSeq(stream[h], ReplayLen(h) + 1, Len(stream[h])) = Since(h)
    /\ \A h \in Handles : NoRepeat(stream[h])

\* Two subscribers that registered at different times both got a live event,
\* one of them after a replay that held an event.
TwoSubscribersGotLive ==
    \E h1, h2 \in Subscribers :
        /\ h1 # h2
        /\ RoomOf(h1) = RoomOf(h2)
        /\ joinedAt[h1] = 0
        /\ joinedAt[h2] = 1
        /\ Len(Since(h1)) = 2
        /\ Len(Since(h2)) = 1
        /\ Len(stream[h2]) = 3

\* ------------------------------------------------------ two rooms side by side
\* Two rooms, each with its password, and two subscribers that may share a
\* room or not; rooms are checked, listed, deleted and created again.
ScopeNext ==
    \/ \E h \in Handles, room \in {Null, "r1"} : Events(h, room, Null)
    \/ \E h \in Handles : Close(h)
    \/ \E h \in Handles : Break(h)
    \/ \E room \in {Null, "r1"}, fail \in SUBSET Handles :
          MessageGet(room, Null, "Bob", "Hi", fail) /\ committed' <= MaxScope
    \/ \E room \in {Null, "r1"}, password \in PasswordParams : DeleteRoom(room, password)
    \/ \E room \in {Null, "r1"}, password \in PasswordParams : CheckRoom(room, password)
    \/ Rooms

ScopeSpec == Init /\ [][ScopeNext]_vars

\* A handle is in the client set of at most one room.
OneRoomPerHandle ==
    \A h \in Handles : Cardinality({r \in DOMAIN rooms : h \in rooms[r].clients}) <= 1

\* A step that writes to a stream already open writes one frame, the event
\* the step commits to the room whose client set holds the handle.
WritesOnlyToRoomClients ==
    \A h \in Handles :
        (conn[h] # "free" /\ stream'[h] # stream[h]) =>
            \E r \in DOMAIN rooms :
                /\ h \in rooms[r].clients
                /\ Len(log'[r]) = Len(log[r]) + 1
                /\ stream'[h] = Append(stream[h], log'[r][Len(log'[r])])

\* C10: an event published to a room is written only to the handles in that
\* room's client set at that moment, and a handle is in at most one client set.
BroadcastIsRoomScoped == []OneRoomPerHandle /\ [][WritesOnlyToRoomClients]_vars

\* Two rooms have a subscriber each; an event went to the one and not the other.
OtherRoomGotNothing ==
    \E h1, h2 \in Handles :
        /\ "default" \in DOMAIN rooms /\ "r1" \in DOMAIN rooms
        /\ h1 \in rooms["default"].clients
        /\ h2 \in rooms["r1"].clients
        /\ joinedAt[h1] = 0 /\ Len(log["default"]) = 1 /\ Len(stream[h1]) = 2
        /\ Len(log["r1"]) = 0 /\ Len(stream[h2]) = 1

\* ------------------------------------------------------------- invite flows
\* One room with a password; invites of several limits and lifetimes are
\* created for it and redeemed while the clock advances and the room is deleted.
InviteNext ==
    \/ Events("h1", "r1", "p")
    \/ DeleteRoom("r1", "p")
    \/ \E expiryParam \in {<<"0">>, <<"1">>},
          maxUsesParam \in {NullStr, <<"2">>, <<"0">>, <<"-", "1">>, <<"x">>} :
          InviteCreate("r1", "p", expiryParam, maxUsesParam) /\ issued' <= MaxMint
    \/ \E token \in {"t1", "t2"} : InviteRedeem(token)
    \/ Tick /\ ticks' <= MaxClock

InviteSpec == Init /\ [][InviteNext]_vars

\* now > expiry, read off the invite as it was created
Elapsed(t) == minted[t].expiry.k = "num" /\ now > minted[t].expiry.v

\* The successful redemptions of a token never outnumber its limit.
UsesWithinLimit == \A t \in DOMAIN minted : redeemed[t] <= minted[t].maxUses

\* A redemption of an unexpired invite succeeds with the snapshot while fewer
\* than maxUses redemptions have succeeded, and is NotFound afterwards.
RedeemCountsUse ==
    \A t \in DOMAIN minted :
        (InviteRedeem(t) /\ ~Elapsed(t)) =>
            IF redeemed[t] < minted[t].maxUses
            THEN /\ resp'.status = 200
                 /\ resp'.body = <<minted[t].room, minted[t].password>>
                 /\ redeemed'[t] = redeemed[t] + 1
            ELSE /\ resp'.status = 404
                 /\ redeemed' = redeemed

\* C4: of the redemptions of an unexpired invite created with maxUses = m,
\* exactly the first m succeed with 200 and the snapshotted room and password,
\* and every later one is answered 404.
InviteAllowsExactlyMaxUses == []UsesWithinLimit /\ [][RedeemCountsUse]_vars

\* Both invites were used up, one of them twice, and a further redemption
\* was answered 404.
InviteUsedUp ==
    /\ DOMAIN minted = {"t1", "t2"}
    /\ \A t \in DOMAIN minted : redeemed[t] = minted[t].maxUses
    /\ \E t \in DOMAIN minted : redeemed[t] = 2
    /\ \A t \in DOMAIN minted : ~Elapsed(t)
    /\ resp.op = "invite" /\ resp.status = 404

\* A redemption of a stored invite whose expiry has passed is answered 410,
\* counts no use and removes the entry; a redemption of a token whose entry
\* was removed is answered 404.
RedeemExpired ==
    \A t \in DOMAIN minted :
        InviteRedeem(t) =>
            /\ (t \in DOMAIN invites /\ Elapsed(t)) =>
                  /\ resp'.status = 410
                  /\ redeemed' = redeemed
                  /\ t \notin DOMAIN invites'
            /\ t \notin DOMAIN invites =>
                  /\ resp'.status = 404
                  /\ redeemed' = redeemed
                  /\ t \notin DOMAIN invites'

\* C5: redeeming an invite whose expiry has passed returns 410 whatever uses
\* remain, counts no use and deletes the entry, so that every later redemption
\* of the token returns 404.
ExpiredInviteIsGone == [][RedeemExpired]_vars

\* An invite with a use left was redeemed after its expiry, and then again.
ExpiredThenNotFound ==
    /\ DOMAIN minted = {"t1"}
    /\ minted["t1"].maxUses = 2 /\ redeemed["t1"] = 1
    /\ Elapsed("t1")
    /\ "t1" \notin DOMAIN invites
    /\ resp.op = "invite" /\ resp.status = 404

\* ------------------------------------------------------------ room lifecycle
\* A deletion with the room's password answers 200 'deleted', ends the stream
\* of every client of the room and removes the room from the registry.
DeleteEndsAllClients ==
    \A room \in {Null, "r1"}, password \in PasswordParams :
        LET name == Or(room, "default")
        IN (/\ DeleteRoom(room, password)
            /\ name \in DOMAIN rooms
            /\ rooms[name].password = Or(password, "")) =>
               /\ resp'.status = 200 /\ resp'.body = <<"deleted">>
               /\ \A h \in rooms[name].clients : conn'[h] = "ended"
               /\ name \notin DOMAIN rooms'

\* While a name is out of the registry checkRoom answers 404 for it and
\* /rooms does not list it.
DeletedIsUnknown ==
    /\ \A room \in {Null, "r1"}, password \in PasswordParams :
          (CheckRoom(room, password) /\ Or(room, "default") \notin DOMAIN rooms) =>
              resp'.status = 404
    /\ Rooms => \A name \in {"default", "r1"} \ DOMAIN rooms :
                    \A i \in 1..Len(resp'.body) : resp'.body[i] # name

\* C6: deleteRoom with the matching password on a room with M >= 0 subscribers
\* answers 200 'deleted', ends all M streams and removes the room; until the
\* room is created again checkRoom answers 404 for it and /rooms omits it.
DeleteRoomClosesAndForgets == [][DeleteEndsAllClients /\ DeletedIsUnknown]_vars

\* A room with two subscribers was deleted and then checked.
DeletedWithTwoSubscribers ==
    /\ \A h \in Handles : conn[h] = "ended" /\ joinedAt[h] = 0 /\ Len(stream[h]) = 2
    /\ committed = 1
    /\ "default" \notin DOMAIN rooms
    /\ resp.op = "checkRoom" /\ resp.status = 404

\* The statement of C7 over one checkRoom request.
CheckRoomByRegistry ==
    \A room \in RoomParams, password \in PasswordParams :
        LET name == Or(room, "default")
        IN CheckRoom(room, password) =>
              /\ resp'.status = 404 <=> name \notin DOMAIN rooms
              /\ resp'.status = 403 <=>
                    (name \in DOMAIN rooms /\ rooms[name].password # Or(password, ""))
              /\ resp'.status \in {200, 403, 404}
              /\ UNCHANGED <<rooms, invites>>

\* C7: checkRoom answers 404 exactly when the name is not in the registry, 403
\* exactly when the room exists with another password and 200 otherwise, and
\* changes neither the registry nor the invite store.
CheckRoomClassifies == [][CheckRoomByRegistry]_vars

\* C8: the password of a room that exists before and after a step is the same
\* before and after it; only a deletion followed by a creation sets another.
PasswordNeverChanges ==
    [][\A r \in DOMAIN rooms \cap DOMAIN rooms' :
          rooms'[r].password = rooms[r].password]_vars

\* A room with a password refused a message that carried another password.
WrongPasswordRefused ==
    /\ "default" \in DOMAIN rooms
    /\ rooms["default"].password = "p"
    /\ resp.op = "GET /message" /\ resp.status = 403

\* ------------------------------------------------- src/server.js, the handlers
\* The server of src/server.js keeps the same state: rooms (a room's markers
\* are its locations) and invites, both without inherited keys, and it stores
\* no messages.
SrvRoom(pass) == [password |-> Or(pass, ""), clients |-> {}, messages |-> <<>>, locations |-> <<>>]

\* for (const client of r.clients) sseSend(client, event, data)
SrvSend(room, event, data) ==
    /\ stream' = [h \in Handles |->
                    IF h \in rooms[room].clients
                    THEN Append(stream[h], Frame(event, data))
                    ELSE stream[h]]
    /\ committed' = committed + 1

\* !r || r.password !== pass
SrvForbidden(room, pass) == room \notin DOMAIN rooms \/ rooms[room].password # pass

SrvRooms ==
    /\ Respond("rooms", 200, KeyList(DOMAIN rooms))
    /\ UNCHANGED <<store, clock, rooms, conn, stream, committed, log, joinedAt, reader, client>>

SrvMessage(roomParam, passParam, nameParam, textParam) ==
    LET room == Or(roomParam, "")
        pass == Or(passParam, "")
        msg == [name |-> Or(nameParam, ""), text |-> Or(textParam, ""), time |-> now]
    IN /\ IF SrvForbidden(room, pass)
          THEN /\ Respond("message", 403, <<"Forbidden">>)
               /\ UNCHANGED <<stream, committed>>
          ELSE /\ SrvSend(room, "message", msg)
               /\ Respond("message", 204, <<>>)
       /\ UNCHANGED <<store, clock, rooms, conn, log, joinedAt, reader, client>>

SrvLocation(roomParam, passParam, nameParam, latParam, lonParam) ==
    LET room == Or(roomParam, "")
        pass == Or(passParam, "")
        name == Or(nameParam, "")
        lat == ParseFloat(latParam)
        lon == ParseFloat(lonParam)
    IN /\ IF SrvForbidden(room, pass)
          THEN /\ Respond("location", 403, <<"Forbidden">>)
               /\ UNCHANGED <<rooms, stream, committed>>
          ELSE IF ~IsFinite(lat) \/ ~IsFinite(lon)
          THEN /\ Respond("location", 400, <<"Bad Request">>)
               /\ UNCHANGED <<rooms, stream, committed>>
          ELSE LET pos == [name |-> name, lat |-> lat, lon |-> lon]
               IN /\ rooms' = [rooms EXCEPT ![room].locations = SetLocation(@, pos)]
                  /\ SrvSend(room, "location", pos)
                  /\ Respond("location", 204, <<>>)
       /\ UNCHANGED <<store, clock, conn, log, joinedAt, reader, client>>

SrvLogout(roomParam, passParam, nameParam) ==
    LET room == Or(roomParam, "")
        pass == Or(passParam, "")
        name == Or(nameParam, "")
    IN /\ IF SrvForbidden(room, pass)
          THEN /\ Respond("logout", 403, <<"Forbidden">>)
               /\ UNCHANGED <<rooms, stream, committed>>
          ELSE /\ rooms' = [rooms EXCEPT ![room].locations = DeleteLocation(@, name)]
               /\ SrvSend(room, "remove", [name |-> name])
               /\ Respond("logout", 204, <<>>)
       /\ UNCHANGED <<store, clock, conn, log, joinedAt, reader, client>>

\* GET /invite/create of src/server.js: the room is created when absent, a
\* non-empty password replaces the password of an existing room, and a token
\* is stored in every case.
SrvInviteCreate(roomParam, passParam) ==
    LET room == Or(roomParam, "")
        pass == Or(passParam, "")
        after == IF room \notin DOMAIN rooms THEN MapPut(rooms, room, SrvRoom(pass))
                 ELSE IF Truthy(pass) THEN [rooms EXCEPT ![room].password = pass]
                 ELSE rooms
    IN /\ rooms' = after
       /\ invites' = MapPut(invites, NewToken, [room |-> room, password |-> after[room].password])
       /\ issued' = issued + 1
       /\ Respond("invite/create", 200, <<"/invite?token=", NewToken>>)
       /\ UNCHANGED <<clock, conn, stream, committed, log, joinedAt, minted, redeemed,
                      reader, client>>

SrvInviteJoin(token) ==
    /\ IF ~Truthy(token) \/ token \notin DOMAIN invites
       THEN Respond("invite/join", 404, <<"Invalid token">>)
       ELSE Respond("invite/join", 200, <<invites[token].room, invites[token].password>>)
    /\ UNCHANGED <<store, clock, rooms, conn, stream, committed, log, joinedAt, reader, client>>

\* GET /invite: index.html for a browser (found is whether the file can be
\* read), a redirect to /invite/join otherwise.
SrvInvite(token, html, found) ==
    /\ IF html
       THEN IF found THEN Respond("invite", 200, <<"index.html">>)
            ELSE Respond("invite", 404, <<"Not Found">>)
       ELSE Respond("invite", 302, <<"/invite/join?token=", Or(token, "")>>)
    /\ UNCHANGED <<store, clock, rooms, conn, stream, committed, log, joinedAt, reader, client>>

SrvEvents(h, roomParam, passParam) ==
    LET room == Or(roomParam, "")
        pass == Or(passParam, "")
        got == IF room \in DOMAIN rooms THEN rooms ELSE MapPut(rooms, room, SrvRoom(pass))
    IN /\ conn[h] = "free"
       /\ IF got[room].password # pass
          THEN /\ Respond("events", 403, <<"Forbidden">>)
               /\ rooms' = got
               /\ UNCHANGED <<conn, stream>>
          ELSE /\ rooms' = [got EXCEPT ![room].clients = @ \cup {h}]
               /\ conn' = [conn EXCEPT ![h] = "open"]
               /\ stream' = [stream EXCEPT ![h] = <<Preamble>> \o
                     [i \in 1..Len(got[room].locations) |->
                         Frame("location", got[room].locations[i])]]
               /\ Respond("events", 200, <<>>)
       /\ UNCHANGED <<store, clock, committed, log, joinedAt, reader, client>>

\* req.on('close', () => r.clients.delete(res))
SrvClose(h) ==
    /\ conn[h] = "open"
    /\ conn' = [conn EXCEPT ![h] = "closed"]
    /\ rooms' = [r \in DOMAIN rooms |-> [rooms[r] EXCEPT !.clients = @ \ {h}]]
    /\ UNCHANGED <<store, clock, stream, resp, committed, log, joinedAt, reader, client>>

SrvRoomParams == {Null, "r1"}
SrvPassParams == {Null, "p", "x"}

SrvNext ==
    \/ SrvRooms
    \/ \E pass \in PasswordParams :
          SrvMessage("r1", pass, "Bob", "Hi") /\ committed' <= MaxSrvEvents
    \/ \E pass \in PasswordParams, lat \in {<<"1">>, <<"x">>} :
          SrvLocation("r1", pass, "Bob", lat, <<"2">>) /\ committed' <= MaxSrvEvents
    \/ \E pass \in PasswordParams :
          SrvLogout("r1", pass, "Bob") /\ committed' <= MaxSrvEvents
    \/ \E room \in SrvRoomParams, pass \in SrvPassParams :
          SrvInviteCreate(room, pass) /\ issued' <= MaxSrvInvites
    \/ \E token \in {Null, "t1", "t2"} : SrvInviteJoin(token)
    \/ \E html \in BOOLEAN, found \in BOOLEAN : SrvInvite("t1", html, found)
    \/ \E room \in SrvRoomParams, pass \in PasswordParams : SrvEvents("h1", room, pass)
    \/ SrvClose("h1")

SrvSpec == Init /\ [][SrvNext]_vars

\* The statement of C9 over one /invite/create request of src/server.js.
SrvInviteCreateGuarded ==
    \A room \in SrvRoomParams, pass \in SrvPassParams :
        LET name == Or(room, "")
        IN (/\ SrvInviteCreate(room, pass)
            /\ name \in DOMAIN rooms
            /\ rooms[name].password # Or(pass, "")) =>
               /\ invites' = invites
               /\ rooms'[name].password = rooms[name].password

\* C9: in src/server.js a GET /invite/create whose password does not match the
\* stored password of an existing room issues no token and leaves the room's
\* password unchanged.
SrvInviteCreateChecksPassword == [][SrvInviteCreateGuarded]_vars

\* ------------------------------------------------------ failed writes
\* The last event committed to the default room in the step.
Published == log'["default"][Len(log'["default"])]

\* A publish during which the writes to the handles in fail throw drops those
\* handles from the client set, writes the event to every other client,
\* commits the event and answers 200.
FailedWriteIsIsolated ==
    \A fail \in (SUBSET Handles) \ {{}} :
        (\/ MessageGet(Null, Null, "Bob", "Hi", fail)
         \/ LocationGet(Null, Null, "Bob", <<"3">>, <<"4">>, fail)) =>
            LET clients == rooms["default"].clients
            IN /\ resp'.status = 200
               /\ Len(log'["default"]) = Len(log["default"]) + 1
               /\ rooms'["default"].clients = clients \ fail
               /\ \A h \in clients \ fail : stream'[h] = Append(stream[h], Published)
               /\ Published.event = "message" =>
                     rooms'["default"].messages = Append(rooms["default"].messages, Published.data)
               /\ Published.event = "location" =>
                     \E i \in 1..Len(rooms'["default"].locations) :
                         rooms'["default"].locations[i] = Published.data

\* C11: when a write to one subscriber fails during a publish the handle is
\* removed from the room's client set, every other client still gets the whole
\* event, and the request answers 200 with its state change committed.
PublishSurvivesFailedWrite == [][FailedWriteIsIsolated]_vars

\* One of two subscribers was dropped by a publish that reached the other.
DroppedOneReachedOther ==
    \E h1, h2 \in Handles :
        /\ conn[h1] = "broken" /\ h1 \notin Subscribers
        /\ h2 \in Subscribers
        /\ joinedAt[h1] = 0 /\ joinedAt[h2] = 0
        /\ Len(log["default"]) = 1
        /\ Len(stream[h1]) = 1 /\ Len(stream[h2]) = 2
        /\ resp.status = 200

\* ------------------------------------------------------ delivery order
\* Event ids are given in commit order, and in StreamSpec the one room is
\* never deleted: the events with an id of at least joinedAt[h] are the ones
\* committed after h registered.
IsLive(h, f) == f.data.id >= joinedAt[h]

\* The events a stream got live are in commit order.
LiveInCommitOrder ==
    \A h \in Handles : \A i, j \in 2..Len(stream[h]) :
        (i < j /\ IsLive(h, stream[h][i]) /\ IsLive(h, stream[h][j])) =>
            stream[h][i].data.id < stream[h][j].data.id

\* A step that commits an event writes it to every client of the room whose
\* write cannot fail, within the step.
CommitWritesToClients ==
    Len(log'["default"]) > Len(log["default"]) =>
        \A h \in Handles :
            ("default" \in DOMAIN rooms /\ h \in rooms["default"].clients /\ conn[h] = "open") =>
                stream'[h] = Append(stream[h], Published)

\* C12 as amended: the events committed to a room after a subscriber
\* registered reach it in commit order, each written before a later event is
\* committed; the replay is ordered by kind, messages before locations.
LiveDeliveryIsCommitOrder == []LiveInCommitOrder /\ [][CommitWritesToClients]_vars

\* C12 as claimed: any two events a subscriber receives, replayed or live,
\* reach it in commit order.
DeliveryIsCommitOrder ==
    \A h \in Handles : \A i, j \in 2..Len(stream[h]) :
        i < j => stream[h][i].data.id < stream[h][j].data.id

\* A subscriber got one event in its replay and then two live events.
ReplayThenTwoLive ==
    \E h \in Subscribers :
        /\ joinedAt[h] = 1
        /\ Len(stream[h]) = 4
        /\ stream[h][3].data.id = 1 /\ stream[h][4].data.id = 2

\* ------------------------------------------------------ create or authenticate
\* The statement of C13 over one /message or /location request: what
\* getOrCreateRoom returns for the request's room and password, and what the
\* request does with it.
PostCreatesOrAuthenticates ==
    \A room \in RoomParams, password \in PasswordParams :
        LET name == Or(room, "default")
            pwd == Or(password, "")
            got == GetOrCreateRoom(rooms, name, pwd)
        IN (\/ MessageGet(room, password, "Bob", "Hi", {})
            \/ LocationGet(room, password, "Bob", <<"1">>, <<"2">>, {})) =>
              IF name \notin DOMAIN rooms
              THEN /\ got.ok
                   /\ got.rooms = MapPut(rooms, name, NewRoom(pwd))
                   /\ resp'.status = 200 /\ resp'.body = <<"ok">>
                   /\ name \in DOMAIN rooms'
                   /\ rooms'[name].password = pwd
                   /\ rooms'[name].clients = {}
              ELSE /\ got.ok <=> rooms[name].password = pwd
                   /\ got.rooms = rooms
                   /\ ~got.ok => (resp'.status = 403 /\ rooms' = rooms)

\* C13: getOrCreateRoom creates a room for a name not in the registry, with
\* the supplied password and nothing else in it, and for a name in the
\* registry returns the room iff the password equals the stored one, changing
\* nothing otherwise; a /message or /location request to a room not in the
\* registry creates it and answers 200 'ok'.
GetOrCreateRoomCreatesOrAuthenticates == [][PostCreatesOrAuthenticates]_vars

\* ------------------------------------------------------ the presence board
InfinityText == <<"I", "n", "f", "i", "n", "i", "t", "y">>

\* One room, one subscriber; locations of two names arrive by GET and by
\* POST, with finite, non-finite and non-numeric coordinates, among messages
\* and logouts.
PresenceNext ==
    \/ Events("h1", Null, Null)
    \/ \E text \in {"Hi", Null} :
          MessageGet(Null, Null, "Bob", text, {}) /\ committed' <= MaxBoard
    \/ \E a \in {<<"Bob", <<"1">>, <<"2">>>>, <<"Bob", <<"3">>, <<"4">>>>,
                 <<"Alice", <<"1">>, <<"2">>>>, <<"Bob", <<"x">>, <<"2">>>>,
                 <<"Bob", InfinityText, <<"2">>>>, <<"Bob", NullStr, <<"2">>>>,
                 <<Null, <<"1">>, <<"2">>>>} :
          LocationGet(Null, Null, a[1], a[2], a[3], {}) /\ committed' <= MaxBoard
    \/ \E body \in {InvalidJson,
                    LocationBody(Null, Null, "Bob", Num(3), Num(4)),
                    LocationBody(Null, Null, "Bob", NotNumber, Num(4)),
                    LocationBody(Null, Null, "Bob", Num(3), Infinity)} :
          LocationPost(body, {}) /\ committed' <= MaxBoard
    \/ \E name \in {"Alice", "Bob"} : Logout(Null, Null, name, {}) /\ committed' <= MaxBoard

PresenceSpec == Init /\ [][PresenceNext]_vars

\* The payloads of a sequence of frames that are location events.
LocationsIn(frames) == LogData(frames, "location")

\* A board has one record per name, and its records are the latest accepted
\* location of each name that has not logged out since.
BoardIsLatestPerName ==
    \A r \in DOMAIN rooms :
        LET board == rooms[r].locations
        IN /\ \A i, j \in 1..Len(board) : i # j => board[i].name # board[j].name
           /\ {board[i] : i \in 1..Len(board)} = PresenceOf(log[r])

\* The location events a subscriber got live are the locations accepted since
\* it registered, every one of them, in the order they were accepted.
LiveLocationsAreAccepted ==
    \A h \in Subscribers :
        LocationsIn(SubSeq(stream[h], ReplayLen(h) + 1, Len(stream[h])))
            = LocationsIn(Since(h))

\* C14: the presence board holds at most one record per name, the most
\* recently accepted location of the name, while a subscriber connected
\* before two posts for one name gets both as live location events in order.
PresenceIsLatestAndLiveIsAll == BoardIsLatestPerName /\ LiveLocationsAreAccepted

\* Bob posted (1,2) and then (3,4): the board holds (3,4) alone and a
\* subscriber connected before both has the two location events in order.
BobMovedTwice ==
    /\ "default" \in DOMAIN rooms
    /\ Len(rooms["default"].locations) = 1
    /\ rooms["default"].locations[1].name = "Bob"
    /\ rooms["default"].locations[1].lat = Num(3)
    /\ rooms["default"].locations[1].lon = Num(4)
    /\ \E h \in Subscribers :
          /\ Len(stream[h]) = 3
          /\ stream[h][2].event = "location" /\ stream[h][2].data.lat = Num(1)
          /\ stream[h][2].data.lon = Num(2)
          /\ stream[h][3].event = "location" /\ stream[h][3].data.lat = Num(3)
          /\ stream[h][3].data.lon = Num(4)

\* ------------------------------------------------------ non-finite coordinates
\* Every record of every presence board has a finite lat and a finite lon.
BoardIsFinite ==
    \A r \in DOMAIN rooms : \A i \in 1..Len(rooms[r].locations) :
        IsFinite(rooms[r].locations[i].lat) /\ IsFinite(rooms[r].locations[i].lon)

\* The boards of the rooms that exist before and after the step are unchanged,
\* and a room the step creates has an empty board.
BoardsUnchanged ==
    \A r \in DOMAIN rooms' :
        rooms'[r].locations = IF r \in DOMAIN rooms THEN rooms[r].locations ELSE <<>>

\* The statement of C15 over one /location request whose lat or lon is not a
\* finite number.
NonFiniteIsRejected ==
    /\ \A lat \in {<<"1">>, <<"x">>, InfinityText} :
          (LocationGet(Null, Null, "Bob", lat, <<"2">>, {}) /\ ~IsFinite(ParseFloat(lat))) =>
              resp'.status = 400 /\ BoardsUnchanged /\ stream' = stream
    /\ \A c \in {<<NotNumber, Num(4)>>, <<Num(3), Infinity>>} :
          LocationPost(LocationBody(Null, Null, "Bob", c[1], c[2]), {}) =>
              resp'.status = 400 /\ BoardsUnchanged /\ stream' = stream

\* C15: a /location request whose lat or lon is not a finite number is
\* answered 400, stores no record and broadcasts nothing, so that every
\* record of a presence board has finite lat and lon.
NonFiniteLocationRejected == []BoardIsFinite /\ [][NonFiniteIsRejected]_vars

\* ------------------------------------------------------ the password gate
GateRooms == {"r1", "constructor"}

\* Every endpoint that takes a room, called with and without the password;
\* invites are also asked for without a room and for an inherited key, and
\* redeemed by a token and by an inherited key.
GateNext ==
    \/ \E password \in PasswordParams : Events("h1", "r1", password)
    \/ Close("h1")
    \/ \E password \in PasswordParams :
          MessageGet("r1", password, "Bob", "Hi", {}) /\ committed' + issued' <= MaxGate
    \/ \E password \in PasswordParams :
          MessagePost(MessageBody("r1", password, "Bob", "Hi"), {})
             /\ committed' + issued' <= MaxGate
    \/ \E password \in PasswordParams :
          LocationGet("r1", password, "Bob", <<"1">>, <<"2">>, {})
             /\ committed' + issued' <= MaxGate
    \/ \E password \in PasswordParams :
          LocationPost(LocationBody("r1", password, "Bob", Num(1), Num(2)), {})
             /\ committed' + issued' <= MaxGate
    \/ \E password \in PasswordParams :
          Logout("r1", password, "Bob", {}) /\ committed' + issued' <= MaxGate
    \/ Rooms
    \/ \E password \in PasswordParams : DeleteRoom("r1", password)
    \/ \E password \in PasswordParams : CheckRoom("r1", password)
    \/ \E room \in GateRooms \cup {Null}, password \in PasswordParams :
          InviteCreate(room, password, NullStr, <<"2">>) /\ committed' + issued' <= MaxGate
    \/ \E token \in {"t1", "constructor"} : InviteRedeem(token)
    \/ \E found \in BOOLEAN : ServeStatic("/upload", found)

GateSpec == Init /\ [][GateNext]_vars

\* The statement of C16 over one /invite/create request.
InviteCreateGated ==
    \A room \in GateRooms \cup {Null}, password \in PasswordParams :
        InviteCreate(room, password, NullStr, <<"2">>) =>
            IF ~Truthy(room)
            THEN resp'.status = 400 /\ invites' = invites /\ rooms' = rooms
            ELSE IF room \notin DOMAIN rooms
            THEN resp'.status = 404 /\ invites' = invites /\ rooms' = rooms
            ELSE IF rooms[room].password # Or(password, "")
            THEN resp'.status = 403 /\ invites' = invites /\ rooms' = rooms
            ELSE /\ resp'.status = 200
                 /\ rooms' = rooms
                 /\ \E t \in DOMAIN invites' \ DOMAIN invites :
                       /\ DOMAIN invites' = DOMAIN invites \cup {t}
                       /\ resp'.body = <<t, "/invite?token=", t>>
                       /\ \A u \in DOMAIN invites : invites'[u] = invites[u]

\* C16: /invite/create answers 400 without a room parameter, 404 for a room
\* not in the registry, 403 for a password other than the stored one, in that
\* order, storing no invite and leaving the registry unchanged; otherwise it
\* stores one new invite and returns its token and link.
InviteCreateRequiresRoomAndPassword == [][InviteCreateGated]_vars

\* The statement of C17 over one redemption of a token that is not in the
\* invite store.
UnknownTokenNotFound ==
    \A token \in {"t1", "constructor"} :
        (InviteRedeem(token) /\ token \notin DOMAIN invites) =>
            /\ resp'.status = 404
            /\ UNCHANGED <<rooms, invites, conn, stream>>

\* C17: redeeming a token that is not in the invite store, whatever the token
\* string, is answered 404 and changes no state.
RedeemUnknownTokenIsNotFound == [][UnknownTokenNotFound]_vars

\* One request of an endpoint behind the password gate.
GatedRequest(room, password) ==
    \/ Events("h1", room, password)
    \/ MessageGet(room, password, "Bob", "Hi", {})
    \/ MessagePost(MessageBody(room, password, "Bob", "Hi"), {})
    \/ LocationGet(room, password, "Bob", <<"1">>, <<"2">>, {})
    \/ LocationPost(LocationBody(room, password, "Bob", Num(1), Num(2)), {})
    \/ Logout(room, password, "Bob", {})
    \/ DeleteRoom(room, password)
    \/ InviteCreate(room, password, NullStr, <<"2">>)

\* A gated request that names an existing room with another password is
\* answered 403 and changes nothing but the response.
WrongPasswordChangesNothing ==
    \A password \in PasswordParams :
        (/\ "r1" \in DOMAIN rooms
         /\ rooms["r1"].password # Or(password, "")
         /\ GatedRequest("r1", password)) =>
            /\ resp'.status = 403
            /\ UNCHANGED <<rooms, invites, now, conn, stream, committed, log, joinedAt,
                           issued, minted, redeemed, ticks>>

\* C18: a request to /events, /message, /location, /logout, /deleteRoom or
\* /invite/create that names an existing room with a non-matching password is
\* answered 403 and leaves the whole state unchanged.
WrongPasswordIsForbidden == [][WrongPasswordChangesNothing]_vars

\* A room with a subscriber, a message, a location and a password refused a
\* deletion that carried no password.
DeletionRefused ==
    /\ "r1" \in DOMAIN rooms
    /\ rooms["r1"].password = "p"
    /\ rooms["r1"].clients = {"h1"}
    /\ conn["h1"] = "open"
    /\ Len(log["r1"]) = 1
    /\ resp.op = "deleteRoom" /\ resp.status = 403

\* ------------------------------------------------------ where rooms come from
\* A request to /checkRoom, /rooms, /deleteRoom, /invite/create or /invite.
ReadOrRemoveRequest ==
    \/ Rooms
    \/ \E token \in {"t1", "constructor"} : InviteRedeem(token)
    \/ \E password \in PasswordParams :
          \/ CheckRoom("r1", password)
          \/ DeleteRoom("r1", password)
          \/ \E room \in GateRooms \cup {Null} : InviteCreate(room, password, NullStr, <<"2">>)

\* A /logout request.
LogoutRequest == \E password \in PasswordParams : Logout("r1", password, "Bob", {})

NamesOn(board) == {board[i].name : i \in 1..Len(board)}

\* A /logout for a name with a record on the board answers 200, takes the
\* record off the board, writes one remove frame for the name to every client
\* and leaves the messages as they are.
LogoutRemovesAndTells ==
    \A name \in {"Alice", "Bob"} :
        (/\ Logout(Null, Null, name, {})
         /\ "default" \in DOMAIN rooms
         /\ name \in NamesOn(rooms["default"].locations)) =>
            LET room == rooms["default"]
            IN /\ resp'.status = 200
               /\ NamesOn(rooms'["default"].locations) = NamesOn(room.locations) \ {name}
               /\ rooms'["default"].messages = room.messages
               /\ \A h \in room.clients :
                     /\ Len(stream'[h]) = Len(stream[h]) + 1
                     /\ SubSeq(stream'[h], 1, Len(stream[h])) = stream[h]
                     /\ stream'[h][Len(stream'[h])].event = "remove"
                     /\ stream'[h][Len(stream'[h])].data.name = name

\* The location frames replayed to a new subscriber are for names on the board.
ReplayIsOfBoard ==
    (Events("h1", Null, Null) /\ "default" \in DOMAIN rooms) =>
        \A i \in 1..Len(stream'["h1"]) :
            stream'["h1"][i].event = "location" =>
                stream'["h1"][i].data.name \in NamesOn(rooms["default"].locations)

\* C20: /logout with the matching password for a name with a presence entry
\* removes the entry and delivers one remove event carrying the name to every
\* subscriber; a later subscriber is replayed no location for the name, and
\* the message history is untouched.
LogoutRemovesPresence == [][LogoutRemovesAndTells /\ ReplayIsOfBoard]_vars

\* After a message, a subscriber saw Bob arrive and log out.
BobLoggedOut ==
    /\ "default" \in DOMAIN rooms
    /\ rooms["default"].locations = <<>>
    /\ Len(rooms["default"].messages) = 1
    /\ Len(stream["h1"]) = 4
    /\ stream["h1"][3].event = "location" /\ stream["h1"][3].data.name = "Bob"
    /\ stream["h1"][4].event = "remove" /\ stream["h1"][4].data.name = "Bob"
    /\ resp.op = "logout" /\ resp.status = 200

\* ------------------------------------------------------ closed connections
\* A handle whose close notification was delivered is in no client set.
ClosedIsUnsubscribed == \A h \in Handles : conn[h] = "closed" => h \notin Subscribers

\* The close notification itself takes the handle out of the client set, and
\* nothing is written to a handle after it.
CloseRemovesAndSilences ==
    \A h \in Handles :
        /\ Close(h) => \A r \in DOMAIN rooms' : h \notin rooms'[r].clients
        /\ conn[h] = "closed" => stream'[h] = stream[h]

\* C21: when a subscriber's connection closes the close notification removes
\* its handle from the room's client set, without a later publish, and no
\* event published afterwards is written to the handle.
ClosedHandleGetsNothing == []ClosedIsUnsubscribed /\ [][CloseRemovesAndSilences]_vars

\* Of two subscribers one closed after the first event; the second event
\* reached the other alone.
ClosedMissedSecondEvent ==
    /\ conn["h1"] = "closed" /\ "h2" \in Subscribers
    /\ joinedAt["h1"] = 0 /\ joinedAt["h2"] = 0
    /\ Len(log["default"]) = 2
    /\ Len(stream["h1"]) = 2 /\ Len(stream["h2"]) = 3

\* ------------------------------------------------------ missing fields
\* The statement of C22 over one /message or /location request that lacks a
\* field.
MissingFieldIsRejected ==
    (\/ MessageGet(Null, Null, "Bob", Null, {})
     \/ LocationGet(Null, Null, "Bob", NullStr, <<"2">>, {})
     \/ LocationGet(Null, Null, Null, <<"1">>, <<"2">>, {})) =>
        /\ resp'.status = 400
        /\ UNCHANGED <<rooms, stream, committed, log>>

\* C22: a /message or /location request that lacks name, text, lat or lon is
\* answered 400 and mutates nothing: no room is created, nothing is stored
\* and nothing is broadcast.
MissingFieldIsValidationError == [][MissingFieldIsRejected]_vars

\* ------------------------------------------------------------ room listing
Listed(body) == {body[i] : i \in 1..Len(body)}

\* /rooms answers the registered names, each once, and changes nothing else.
RoomsListsRegistry ==
    Rooms => /\ resp'.status = 200
             /\ Listed(resp'.body) = DOMAIN rooms
             /\ Len(resp'.body) = Cardinality(DOMAIN rooms)
             /\ UNCHANGED <<rooms, invites, conn, stream, committed, log>>

\* A room that holds an accepted event since its last deletion is registered.
PostedRoomIsRegistered == \A r \in RoomKeys : log[r] # <<>> => r \in DOMAIN rooms

\* A name enters the registry only by an accepted request and leaves it only
\* by an accepted deletion, which removes the name it was given.
RegistryIsCreatedNotDeleted ==
    /\ DOMAIN rooms' \ DOMAIN rooms # {} =>
          /\ resp'.status = 200 /\ resp'.op \in {"events", "GET /message"}
          /\ Cardinality(DOMAIN rooms' \ DOMAIN rooms) = 1
          /\ DOMAIN rooms \subseteq DOMAIN rooms'
    /\ DOMAIN rooms \ DOMAIN rooms' # {} =>
          /\ resp'.status = 200 /\ resp'.op = "deleteRoom"
          /\ Cardinality(DOMAIN rooms \ DOMAIN rooms') = 1
          /\ DOMAIN rooms' \subseteq DOMAIN rooms
    /\ \A room \in {Null, "r1"}, password \in PasswordParams :
          DeleteRoom(room, password) /\ resp'.status = 200 =>
             DOMAIN rooms' = DOMAIN rooms \ {Or(room, "default")}

\* C23: /rooms returns exactly the names that were created and not deleted
\* since, and changes no state.
RoomsListsLiveRooms ==
    /\ []PostedRoomIsRegistered
    /\ [][RoomsListsRegistry /\ RegistryIsCreatedNotDeleted]_vars

\* Both rooms were created, one was deleted, and the listing names the other.
ListedAfterDeletion ==
    /\ resp.op = "rooms"
    /\ resp.body = <<"default">>
    /\ committed = 2
    /\ DOMAIN rooms = {"default"}
    /\ Len(log["default"]) = 1

\* ----------------------------------------------------------------- /upload
\* The statement of C24 over one request to /upload, which no handler
\* matches: a valid upload is answered 200 and recorded in the room, one
\* with an invalid JSON body is answered 400.
UploadIsHandled ==
    \A found \in BOOLEAN :
        ServeStatic("/upload", found) =>
            \/ resp'.status = 200 /\ rooms' # rooms
            \/ resp'.status = 400

\* C24: a file sent through /upload with valid room credentials is accepted
\* with 200 and recorded in the room for later subscribers, and a POST /upload
\* whose body is not valid JSON is answered 400.
UploadIsRecordedOrRejected == [][UploadIsHandled]_vars

\* ------------------------------------------------------- invite use counts
\* C25: every invite in the store has maxUses >= 1 and 0 <= uses < maxUses,
\* whatever maxUses parameter it was created with and however often it was
\* redeemed.
InviteCountsInRange ==
    \A t \in DOMAIN invites :
        /\ invites[t].maxUses >= 1
        /\ 0 <= invites[t].uses
        /\ invites[t].uses < invites[t].maxUses

\* One invite was redeemed once out of two uses and another, limited to one
\* use, is still unused.
OneUsedOneFresh ==
    /\ DOMAIN invites = {"t1", "t2"}
    /\ invites["t1"].maxUses = 2 /\ invites["t1"].uses = 1
    /\ invites["t2"].maxUses = 1 /\ invites["t2"].uses = 0

\* ------------------------------------------------- invites and the registry
\* One room name that is created, deleted and created again under either
\* password, every endpoint that takes a room, and invites with an absent, a
\* numeric and a non-numeric expiry parameter.
SnapshotNext ==
    \/ Events("h1", "r1", "p")
    \/ \E password \in PasswordParams :
          MessageGet("r1", password, "Bob", "Hi", {})
             /\ committed' + issued' + ticks' <= MaxSnapshot
    \/ LocationGet("r1", "p", "Bob", <<"1">>, <<"2">>, {})
          /\ committed' + issued' + ticks' <= MaxSnapshot
    \/ Logout("r1", "p", "Bob", {}) /\ committed' + issued' + ticks' <= MaxSnapshot
    \/ \E password \in PasswordParams : DeleteRoom("r1", password)
    \/ CheckRoom("r1", "p")
    \/ \E expiryParam \in {NullStr, <<"0">>, <<"x">>} :
          InviteCreate("r1", "p", expiryParam, <<"2">>)
             /\ committed' + issued' + ticks' <= MaxSnapshot
    \/ \E token \in {"t1", "t2"} : InviteRedeem(token)
    \/ Tick /\ committed' + issued' + ticks' <= MaxSnapshot

SnapshotSpec == Init /\ [][SnapshotNext]_vars

\* C26: every stored invite carries an expiry timestamp, its creation time
\* plus the minutes of the expiry parameter (1440 when absent), for every
\* expiry parameter that create accepts, so that a time exists after which
\* it is Expired or NotFound.
StoredExpiryIsTimestamp ==
    \A t \in DOMAIN invites :
        /\ IsFinite(invites[t].expiry)
        /\ \E m \in {0, DefaultExpiryMinutes}, made \in {0, MsPerMinute, 2 * MsPerMinute} :
              invites[t].expiry.v = made + m * MsPerMinute

\* A redemption leaves the registry alone, and one that succeeds answers the
\* room and password the invite was created with.
RedeemAnswersSnapshot ==
    \A t \in {"t1", "t2"} :
        InviteRedeem(t) =>
            /\ rooms' = rooms
            /\ resp'.status = 200 =>
                  /\ t \in DOMAIN minted
                  /\ resp'.body = <<minted[t].room, minted[t].password>>
            /\ (t \in DOMAIN invites /\ ~Expired(now, invites[t].expiry)) =>
                  resp'.status = 200

\* C27: a successful redemption returns the room name and password given at
\* creation whatever became of the room since (deleted, or deleted and
\* created again with another password), and a redemption neither reads nor
\* changes the registry.
RedeemReturnsSnapshot == [][RedeemAnswersSnapshot]_vars

\* The invite was redeemed with password p after its room was deleted and
\* created again without a password.
RedeemedAfterRecreation ==
    /\ resp = [op |-> "invite", status |-> 200, body |-> <<"r1", "p">>]
    /\ "r1" \in DOMAIN rooms /\ rooms["r1"].password = ""


\* Whatever step removes or changes a stored invite is a redemption of that
\* token, and it removes the entry only when the invite is expired or this
\* use is its last.
OnlyOwnRedeemTouchesInvite ==
    \A t \in DOMAIN invites :
        (t \notin DOMAIN invites' \/ invites'[t] # invites[t]) =>
            /\ InviteRedeem(t)
            /\ t \notin DOMAIN invites' =>
                  \/ Expired(now, invites[t].expiry)
                  \/ invites[t].uses + 1 >= invites[t].maxUses

\* C28: an invite entry is removed or altered only by a redemption attempt
\* on its own token; the passage of time, the redemption of another token
\* and every other request leave it as it is.
InvitesChangeOnlyByOwnRedeem == [][OnlyOwnRedeemTouchesInvite]_vars

\* An invite outlived the deletion of its room and its own expiry time.
InviteOutlivedRoomAndExpiry ==
    /\ "t1" \in DOMAIN invites
    /\ "r1" \notin DOMAIN rooms
    /\ Expired(now, invites["t1"].expiry)

\* --------------------------------------------------- refused deletions
\* The statement of C29 over one /deleteRoom request.
DeleteRoomRefuses ==
    \A room \in RoomParams, password \in PasswordParams :
        LET name == Or(room, "default")
        IN DeleteRoom(room, password) =>
              /\ name \notin DOMAIN rooms =>
                    /\ resp'.status = 404
                    /\ UNCHANGED <<rooms, conn, stream>>
              /\ (name \in DOMAIN rooms /\ rooms[name].password # Or(password, "")) =>
                    /\ resp'.status = 403
                    /\ UNCHANGED <<rooms, conn, stream>>

\* C29: deleteRoom answers 404 for a name that is not in the registry and 403
\* for an existing room with a wrong password, and in both cases closes no
\* handle and leaves the registry and the room as they were.
DeleteRoomRefusalsAreClassified == [][DeleteRoomRefuses]_vars

\* ------------------------------------------------- deletion and recreation
\* One room that is deleted and created again, two subscribers, messages and
\* locations.
RecreateNext ==
    \/ \E h \in Handles : Events(h, Null, Null)
    \/ \E h \in Handles : Close(h)
    \/ MessageGet(Null, Null, "Bob", "Hi", {}) /\ committed' <= MaxRecreate
    \/ LocationGet(Null, Null, "Bob", <<"1">>, <<"2">>, {}) /\ committed' <= MaxRecreate
    \/ DeleteRoom(Null, Null)

RecreateSpec == Init /\ [][RecreateNext]_vars

\* Every frame a subscriber holds after the preamble is an event committed to
\* its room since the room was last created, and a handle ended by a deletion
\* is in no client set.
StreamIsOfThisRoom ==
    /\ \A h \in Subscribers :
          \A i \in 2..Len(stream[h]) :
              \E j \in 1..Len(log[RoomOf(h)]) : log[RoomOf(h)][j] = stream[h][i]
    /\ \A h \in Handles : conn[h] = "ended" => h \notin Subscribers

\* The step that registers a name starts its room with nothing but what the
\* step itself adds; a handle ended by a deletion gets no further frame, and
\* its close notification leaves the registry as it is.
RecreatedRoomIsFresh ==
    /\ \A r \in DOMAIN rooms' \ DOMAIN rooms :
          /\ Len(rooms'[r].messages) + Len(rooms'[r].locations) = Len(log'[r])
          /\ Len(log'[r]) <= 1
          /\ \A h \in rooms'[r].clients : conn[h] = "free" /\ Len(stream'[h]) = 1
    /\ \A h \in Handles :
          conn[h] = "ended" => /\ stream'[h] = stream[h]
                               /\ Close(h) => rooms' = rooms

\* C30: a room created again after its deletion starts with empty history,
\* empty presence and no subscribers; a new subscriber's replay holds nothing
\* posted before the deletion, and the deleted room's handles receive none of
\* the new room's events, also when they close after the recreation.
RecreatedRoomStartsEmpty == []StreamIsOfThisRoom /\ [][RecreatedRoomIsFresh]_vars

\* The first subscriber saw the location posted before the deletion and was
\* ended; the second subscribed to the recreated room and its replay holds
\* only the message posted to it.
OldHandleMissedNewRoom ==
    /\ conn["h1"] = "ended" /\ Len(stream["h1"]) = 2
    /\ "default" \in DOMAIN rooms /\ "h2" \in rooms["default"].clients
    /\ committed = 2 /\ Len(log["default"]) = 1
    /\ stream["h2"] = <<Preamble, log["default"][1]>>
    /\ stream["h1"][2].event = "location" /\ log["default"][1].event = "message"

\* ---------------------------------------------------------------- readJson
\* function readJson(req, limit = 15 * 1024 * 1024)
BodyLimit == 15 * 1024 * 1024

RECURSIVE Sum(_)
Sum(lengths) == IF lengths = <<>> THEN 0 ELSE Head(lengths) + Sum(Tail(lengths))

\* A POST /message or POST /location arrives: the handler calls readJson(req),
\* which registers its listeners and returns a pending promise.  seen is a
\* ghost, the registry as it is on arrival.
PostArrives(route, body) ==
    /\ promise # "pending"
    /\ req' = [route |-> route, body |-> body, destroyed |-> FALSE, seen |-> rooms]
    /\ chunks' = <<>>
    /\ total' = 0
    /\ promise' = "pending"
    /\ failures' = 0
    /\ UNCHANGED <<server, client>>

\* reject(err) settles the promise if it is pending, and the handler's catch
\* then answers 400 'Invalid JSON'; on a settled promise it does nothing.
Reject ==
    IF promise = "pending"
    THEN /\ promise' = "rejected"
         /\ failures' = failures + 1
         /\ Respond(req.route, 400, <<"Invalid JSON">>)
    ELSE UNCHANGED <<promise, failures, resp>>

\* req.on('data'): a chunk of n bytes.  A chunk still queued in the stream
\* may be delivered after req.destroy().
ReadData(n) ==
    /\ req.route # "none"
    /\ promise # "resolved"
    /\ total' = total + n
    /\ IF total' > BodyLimit
       THEN /\ req' = [req EXCEPT !.destroyed = TRUE]
            /\ Reject
            /\ UNCHANGED chunks
       ELSE /\ chunks' = Append(chunks, n)
            /\ UNCHANGED <<req, promise, failures, resp>>
    /\ UNCHANGED <<store, clock, rooms, conn, stream, committed, log, joinedAt, client>>

\* req.on('error'): the connection failed while the body was being read.
ReadError ==
    /\ promise = "pending"
    /\ req' = [req EXCEPT !.destroyed = TRUE]
    /\ Reject
    /\ UNCHANGED <<chunks, total>>
    /\ UNCHANGED <<store, clock, rooms, conn, stream, committed, log, joinedAt, client>>

\* The then-callback of POST /message and POST /location on the parsed body.
Posted(route, body, fail) ==
    IF route = "POST /message"
    THEN PostMessage(route, body.room, body.password, body.name, body.text, fail)
    ELSE PostLocation(route, body.room, body.password, body.name, body.lat, body.lon,
                      Truthy(body.name) /\ IsNumber(body.lat) /\ IsNumber(body.lon), fail)

\* A handler that checked the password when the request arrived and, at the
\* end of the body, writes to the room object it found then.
ReadEndCheckedOnArrival(fail) ==
    LET body == req.body
        name == Or(body.room, "default")
        msg == [name |-> body.name, text |-> "Hi", time |-> now, id |-> committed]
    IN /\ promise = "pending"
       /\ ~req.destroyed
       /\ fail = {}
       /\ IF ~body.valid
          THEN /\ Reject
               /\ UNCHANGED <<rooms, stream, committed, log>>
          ELSE /\ promise' = "resolved"
               /\ UNCHANGED failures
               /\ IF name \in DOMAIN req.seen /\ req.seen[name].password = Or(body.password, "")
                  THEN /\ rooms' = MapPut(rooms, name,
                                          [req.seen[name] EXCEPT !.messages = Append(@, msg)])
                       /\ committed' = committed + 1
                       /\ log' = [log EXCEPT ![name] = Append(@, Frame("message", msg))]
                       /\ Respond(req.route, 200, <<"ok">>)
                       /\ UNCHANGED stream
                  ELSE Posted(req.route, body, fail)
       /\ UNCHANGED <<req, chunks, total, store, clock, conn, joinedAt, client>>

\* req.on('end'): JSON.parse of the buffered body resolves the promise, and
\* the then-callback runs on the registry as it is now, or throws and rejects
\* it.
ReadEnd(fail) ==
    /\ promise = "pending"
    /\ ~req.destroyed
    /\ IF ~req.body.valid
       THEN /\ fail = {}
            /\ Reject
            /\ UNCHANGED <<rooms, stream, committed, log>>
       ELSE /\ fail \subseteq MayThrow(rooms, Or(req.body.room, "default"))
            /\ promise' = "resolved"
            /\ UNCHANGED failures
            /\ Posted(req.route, req.body, fail)
    /\ UNCHANGED <<req, chunks, total, store, clock, conn, joinedAt, client>>

\* What the client of the request receives: the response written, unless
\* req.destroy() has destroyed the socket, which aborts the connection.
ConnectionReset == [op |-> "none", status |-> 0, body |-> <<"ECONNRESET">>]
Received == IF req.destroyed THEN ConnectionReset ELSE resp

\* One room that is deleted and created again under either password while the
\* body of a POST is read in chunks.
ReaderNext ==
    \/ \E body \in {InvalidJson, MessageBody("r1", "p", "Bob", "Hi")} :
          PostArrives("POST /message", body)
    \/ \E body \in {InvalidJson, LocationBody("r1", "p", "Bob", Num(1), Num(2))} :
          PostArrives("POST /location", body)
    \/ \E n \in {1, BodyLimit} :
          ReadData(n) /\ Len(chunks') <= MaxChunks /\ total' <= BodyLimit + MaxChunks
    \/ ReadError
    \/ ReadEnd({}) /\ committed' <= MaxReader
    \/ \E password \in PasswordParams :
          MessageGet("r1", password, "Bob", "Hi", {}) /\ committed' <= MaxReader
    \/ \E password \in PasswordParams : DeleteRoom("r1", password)
    \/ Events("h1", "r1", "p")

ReaderSpec == Init /\ [][ReaderNext]_vars

\* The end of a body that does not parse is answered 400 and changes nothing;
\* the end of one that does is decided on the registry of that moment: 403
\* and nothing changed when the room has another password now, the event in
\* the room registered now when the password matches, and a room created
\* with the body's password when none is registered.
ReadEndOnRegistry ==
    ReadEnd({}) =>
        LET body == req.body
            name == Or(body.room, "default")
            pwd == Or(body.password, "")
        IN IF ~body.valid
           THEN /\ resp'.status = 400
                /\ UNCHANGED <<rooms, invites, stream, committed, log>>
           ELSE IF name \in DOMAIN rooms /\ rooms[name].password # pwd
           THEN /\ resp'.status = 403
                /\ UNCHANGED <<rooms, invites, stream, committed, log>>
           ELSE IF name \in DOMAIN rooms
           THEN /\ resp'.status = 200
                /\ DOMAIN rooms' = DOMAIN rooms
                /\ rooms'[name].password = pwd
                /\ rooms'[name].clients = rooms[name].clients
                /\ Len(log'[name]) = Len(log[name]) + 1
                /\ \A h \in rooms[name].clients : Len(stream'[h]) = Len(stream[h]) + 1
           ELSE /\ resp'.status = 200
                /\ rooms'[name].password = pwd
                /\ rooms'[name].clients = {}
                /\ Len(rooms'[name].messages) + Len(rooms'[name].locations) = 1

\* Until its end the reading of a body changes neither the registry nor any
\* stream.
ReadingChangesNothing ==
    ((\E n \in {1, BodyLimit} : ReadData(n)) \/ ReadError
        \/ (\E route \in {"POST /message", "POST /location"},
               body \in {InvalidJson, MessageBody("r1", "p", "Bob", "Hi"),
                         LocationBody("r1", "p", "Bob", Num(1), Num(2))} :
               PostArrives(route, body))) =>
        UNCHANGED <<rooms, invites, stream, committed, log>>

BufferedWithinLimit ==
    /\ Sum(chunks) <= BodyLimit
    /\ total > BodyLimit => req.destroyed /\ promise = "rejected" /\ failures = 1

\* The chunk that takes the bytes received over the limit is not buffered and
\* changes no room and no invite, and the client receives an error status.
OversizedChunkIsRefused ==
    \A n \in {1, BodyLimit} :
        (ReadData(n) /\ total' > BodyLimit) =>
            /\ chunks' = chunks
            /\ UNCHANGED <<rooms, invites, stream, committed, log>>
            /\ promise = "pending" => Received'.status >= 400

\* C32: the bytes buffered while a body is read never exceed the limit; once
\* the bytes received exceed it the request is destroyed, no further chunk
\* is buffered, the read fails exactly once, the caller gets an error
\* status, and no room or invite state is mutated.
OversizedBodyIsRejected == []BufferedWithinLimit /\ [][OversizedChunkIsRefused]_vars


\* ------------------------------------------------------ repeated logouts
LogoutNames == {"Alice", "Bob", "constructor"}

\* One room with one subscriber: Bob and Alice report locations, and they
\* and a user named constructor log out, any number of times.
LogoutNext ==
    \/ Events("h1", Null, Null)
    \/ \E name \in {"Alice", "Bob"} :
          LocationGet(Null, Null, name, <<"1">>, <<"2">>, {}) /\ committed' <= MaxLogout
    \/ \E name \in LogoutNames :
          Logout(Null, Null, name, {}) /\ committed' <= MaxLogout

LogoutSpec == Init /\ [][LogoutNext]_vars

\* A /logout for a name from a set that has no record on the board leaves
\* the board and every stream as they are.
LogoutOfAbsentIsSilent(names) ==
    \A name \in names :
        (/\ Logout(Null, Null, name, {})
         /\ "default" \in DOMAIN rooms
         /\ name \notin NamesOn(rooms["default"].locations)) =>
            /\ rooms'["default"].locations = rooms["default"].locations
            /\ stream' = stream

\* C33: /logout for a name with no presence entry in the room leaves the
\* board unchanged and broadcasts nothing, so that a repeated logout
\* delivers no further remove event for the name to any subscriber.
LogoutIsIdempotent == [][LogoutOfAbsentIsSilent(LogoutNames)]_vars

\* ------------------------------------------------- a room without subscribers
\* One protected room: two subscribers come and go, a message and a location
\* are posted, the room is listed and deleted.
IdleNext ==
    \/ \E h \in Handles, password \in PasswordParams : Events(h, "r1", password)
    \/ \E h \in Handles : Close(h)
    \/ MessageGet("r1", "p", "Bob", "Hi", {}) /\ committed' <= MaxIdle
    \/ LocationGet("r1", "p", "Bob", <<"1">>, <<"2">>, {}) /\ committed' <= MaxIdle
    \/ \E password \in PasswordParams : DeleteRoom("r1", password)
    \/ Rooms

IdleSpec == Init /\ [][IdleNext]_vars

\* A step that takes a name out of the registry is a /deleteRoom answered
\* 200; a close keeps every room, with its password, history and presence.
RoomLeavesOnlyByDelete ==
    /\ DOMAIN rooms \ DOMAIN rooms' # {} =>
          /\ \E password \in PasswordParams : DeleteRoom("r1", password)
          /\ resp'.status = 200
    /\ \A h \in Handles :
          Close(h) =>
             /\ DOMAIN rooms' = DOMAIN rooms
             /\ \A r \in DOMAIN rooms :
                   /\ rooms'[r].password = rooms[r].password
                   /\ rooms'[r].messages = rooms[r].messages
                   /\ rooms'[r].locations = rooms[r].locations

\* A subscriber admitted to a room in the registry is replayed every message
\* and the board of the room, whoever was subscribed when they were posted.
LateSubscriberGetsReplay ==
    \A h \in Handles, password \in PasswordParams :
        (Events(h, "r1", password) /\ "r1" \in DOMAIN rooms /\ resp'.status = 200) =>
            LET s == stream'[h]
                msgs == LogMessages(log["r1"])
                presence == PresenceOf(log["r1"])
            IN /\ rooms["r1"].password = Or(password, "")
               /\ Len(s) = 1 + Len(msgs) + Cardinality(presence)
               /\ \A i \in 1..Len(msgs) : s[1 + i] = Frame("message", msgs[i])
               /\ {s[1 + Len(msgs) + j] : j \in 1..Cardinality(presence)}
                     = {Frame("location", d) : d \in presence}

VariantDeleteRoomEndingClients(room, password) == DeleteRoom(room, password)

\* /deleteRoom of the variant: refused with 409 while the room has clients.
VariantDeleteRoom(room, password) ==
    LET roomName == Or(room, "default")
        pwd == Or(password, "")
    IN /\ IF ~RoomTruthy(rooms, roomName)
          THEN /\ Respond("deleteRoom", 404, <<"Room not found">>)
               /\ UNCHANGED <<rooms, log>>
          ELSE IF RoomPassword(rooms, roomName) # pwd
          THEN /\ Respond("deleteRoom", 403, <<"Invalid room password">>)
               /\ UNCHANGED <<rooms, log>>
          ELSE IF rooms[roomName].clients # {}
          THEN /\ Respond("deleteRoom", 409, <<"Room has active clients">>)
               /\ UNCHANGED <<rooms, log>>
          ELSE /\ rooms' = MapRemove(rooms, roomName)
               /\ log' = [log EXCEPT ![roomName] = <<>>]
               /\ Respond("deleteRoom", 200, <<"deleted">>)
       /\ UNCHANGED <<store, clock, conn, stream, committed, joinedAt, reader, client>>

\* GET /checkRoom of the variant.  The test for the path is written inside
\* the body of the /deleteRoom test, where the path is '/deleteRoom', so no
\* request reaches it: the request falls through to the static files, and
\* its parameters are never read.
VariantCheckRoom(room, password) ==
    \E found \in BOOLEAN : ServeStatic("/checkRoom", found)

VariantNext ==
    \/ \E h \in Handles, password \in PasswordParams : Events(h, "r1", password)
    \/ \E h \in Handles : Close(h)
    \/ MessageGet("r1", "p", "Bob", "Hi", {}) /\ committed' <= MaxVariant
    \/ \E password \in PasswordParams : VariantDeleteRoom("r1", password)
    \/ \E password \in PasswordParams : VariantCheckRoom("r1", password)

VariantSpec == Init /\ [][VariantNext]_vars

\* An authorized variant deletion is refused with 409 and changes nothing
\* while the room has a client, and removes the room otherwise.
OccupiedRoomIsKept ==
    \A password \in PasswordParams :
        (/\ VariantDeleteRoom("r1", password)
         /\ "r1" \in DOMAIN rooms
         /\ rooms["r1"].password = Or(password, "")) =>
            IF rooms["r1"].clients # {}
            THEN /\ resp'.status = 409
                 /\ UNCHANGED <<rooms, conn, stream, log, committed>>
            ELSE /\ resp'.status = 200 /\ resp'.body = <<"deleted">>
                 /\ "r1" \notin DOMAIN rooms'

\* C35: in the variant of part_001 an authorized deleteRoom on a room with
\* at least one subscriber is answered 409 and leaves the room, its
\* subscribers and its state untouched; on a room without subscribers it
\* removes the room and answers 200 'deleted'.
VariantDeleteRefusesOccupied == [][OccupiedRoomIsKept]_vars

\* A deletion was refused while two subscribers held the room and a message.
DeletionRefusedWhileOccupied ==
    /\ resp.op = "deleteRoom" /\ resp.status = 409
    /\ "r1" \in DOMAIN rooms
    /\ rooms["r1"].clients = Handles
    /\ Len(rooms["r1"].messages) = 1
    /\ \A h \in Handles : conn[h] = "open"

\* The answer the comment on the variant's /checkRoom promises.
CheckRoomAnswersByRegistry ==
    \A password \in PasswordParams :
        VariantCheckRoom("r1", password) =>
            resp'.status = IF "r1" \notin DOMAIN rooms THEN 404
                           ELSE IF rooms["r1"].password # Or(password, "") THEN 403
                           ELSE 200

\* C36: in the variant of part_001 GET /checkRoom answers 404 when the room
\* does not exist, 403 when the password is wrong and 200 when it matches.
VariantCheckRoomClassifies == [][CheckRoomAnswersByRegistry]_vars

\* ------------------------------------------------- the client's SSE session
\* let roomName, eventSource, reconnectDelay, reconnectTimeoutId, with the
\* EventSource objects and the timers the page has created.  An EventSource
\* is its position in sources and a timer id its position in timers; 0 is null.
Session == [roomName |-> myRoomName, eventSource |-> eventSource,
            reconnectTimeoutId |-> reconnectTimeoutId,
            reconnectDelay |-> reconnectDelay,
            sources |-> sources, timers |-> timers]

SetSession(c) ==
    /\ myRoomName' = c.roomName
    /\ eventSource' = c.eventSource
    /\ reconnectTimeoutId' = c.reconnectTimeoutId
    /\ reconnectDelay' = c.reconnectDelay
    /\ sources' = c.sources
    /\ timers' = c.timers
    /\ UNCHANGED <<server, reader>>

maxReconnectDelay == 30000

\* if (eventSource) { eventSource.close(); eventSource = null; }
closeEventSource(c) ==
    IF c.eventSource = 0 THEN c
    ELSE [c EXCEPT !.sources[c.eventSource] = "closed", !.eventSource = 0]

\* if (reconnectTimeoutId) { clearTimeout(reconnectTimeoutId); reconnectTimeoutId = null; }
clearReconnect(c) ==
    IF c.reconnectTimeoutId = 0 THEN c
    ELSE [c EXCEPT !.timers[c.reconnectTimeoutId].state = "cleared",
                   !.reconnectTimeoutId = 0]

\* if (reconnectTimeoutId) return; reconnectTimeoutId = setTimeout(.., reconnectDelay)
scheduleReconnect(c) ==
    IF c.reconnectTimeoutId # 0 THEN c
    ELSE [c EXCEPT !.timers = Append(@, [delay |-> c.reconnectDelay, state |-> "pending"]),
                   !.reconnectTimeoutId = Len(c.timers) + 1]

\* connect: new EventSource(url) yields a connecting source, or throws.
connect(c, throws) ==
    IF c.roomName = "" THEN c
    ELSE IF throws THEN scheduleReconnect(c)
    ELSE [c EXCEPT !.sources = Append(@, "connecting"),
                   !.eventSource = Len(c.sources) + 1]

\* A start that leaves a pending reconnect timer running.
startSSEKeepingTimer(c, throws) ==
    IF c.roomName = "" THEN c
    ELSE connect(closeEventSource(c), throws)

\* startSSE: close the connection in use, cancel a pending reconnect, connect.
startSSE(c, throws) ==
    IF c.roomName = "" THEN c
    ELSE connect(clearReconnect(closeEventSource(c)), throws)

\* A reset that leaves a pending reconnect timer running.
resetSessionKeepingTimer(c) == [closeEventSource(c) EXCEPT !.roomName = ""]

resetSession(c) == [clearReconnect(closeEventSource(c)) EXCEPT !.roomName = ""]

\* The login button, from the point where the room's password was accepted:
\* roomName = roomVal; startSSE().
Login(room, throws) ==
    /\ room # ""
    /\ SetSession(startSSE([Session EXCEPT !.roomName = room], throws))

\* The logout button: the /logout request is sent, then resetSession().
ClientLogout == SetSession(resetSession(Session))

\* eventSource.onopen of source s: reconnectDelay = 1000.
OnOpen(s) ==
    /\ s \in DOMAIN sources /\ sources[s] = "connecting"
    /\ SetSession([Session EXCEPT !.sources[s] = "open", !.reconnectDelay = 1000])

\* eventSource.onerror of source s, which the browser is reconnecting or has
\* given up: the handler closes the current source and schedules a reconnect.
OnError(s, failed) ==
    /\ s \in DOMAIN sources /\ sources[s] # "closed"
    /\ LET c == [Session EXCEPT !.sources[s] = IF failed THEN "closed" ELSE "connecting"]
       IN SetSession(scheduleReconnect(closeEventSource(c)))

\* A timer callback that doubles the delay without the cap.
TimerFireUncapped(t, throws) ==
    /\ t \in DOMAIN timers /\ timers[t].state = "pending"
    /\ LET c == [Session EXCEPT !.timers[t].state = "fired",
                                !.reconnectTimeoutId = 0,
                                !.reconnectDelay = reconnectDelay * 2]
       IN SetSession(connect(c, throws))

\* The callback of reconnect timer t, which was not cleared.
TimerFire(t, throws) ==
    /\ t \in DOMAIN timers /\ timers[t].state = "pending"
    /\ LET c == [Session EXCEPT !.timers[t].state = "fired",
                                !.reconnectTimeoutId = 0,
                                !.reconnectDelay = Min(reconnectDelay * 2, maxReconnectDelay)]
       IN SetSession(connect(c, throws))

ClientNext ==
    \/ \E throws \in BOOLEAN :
          Login("r1", throws) /\ Len(sources') <= MaxSources /\ Len(timers') <= MaxTimers
    \/ ClientLogout
    \/ \E s \in 1..MaxSources : OnOpen(s)
    \/ \E s \in 1..MaxSources, failed \in BOOLEAN :
          OnError(s, failed) /\ Len(timers') <= MaxTimers
    \/ \E t \in 1..MaxTimers, throws \in BOOLEAN :
          TimerFire(t, throws) /\ Len(sources') <= MaxSources /\ Len(timers') <= MaxTimers

ClientSpec == Init /\ [][ClientNext]_vars

ReconnectDelays == {1000, 2000, 4000, 8000, 16000, 30000}

\* The delay changes only in a timer callback, which doubles it up to the
\* cap, and in onopen, which resets it; a timer set in a step carries the
\* delay as the step leaves it.
DelayChangesByRule ==
    /\ reconnectDelay' # reconnectDelay =>
          \/ /\ \E t \in 1..Len(timers), throws \in BOOLEAN : TimerFire(t, throws)
             /\ reconnectDelay' = Min(reconnectDelay * 2, 30000)
          \/ /\ \E s \in 1..Len(sources) : OnOpen(s)
             /\ reconnectDelay' = 1000
    /\ \A t \in (Len(timers) + 1)..Len(timers') :
          /\ timers'[t].state = "pending"
          /\ timers'[t].delay = reconnectDelay'
    /\ \A t \in 1..Len(timers) : timers'[t].delay = timers[t].delay

\* C37: reconnectDelay is always one of 1000, 2000, 4000, 8000, 16000 and
\* 30000 ms; it changes only when a reconnect timer fires (doubled, capped at
\* 30000) or a connection opens (reset to 1000), and each reconnect is
\* scheduled with the delay current when the failure is handled.
ReconnectDelayBacksOff ==
    [](reconnectDelay \in ReconnectDelays) /\ [][DelayChangesByRule]_vars

\* Six reconnects failed in a row: the timers were set with 1000, 2000, 4000,
\* 8000, 16000 and 30000 ms, and the last callback left the delay at the cap.
BackedOffToCap ==
    /\ Len(timers) = 6
    /\ \A t \in 1..6 : timers[t].state = "fired"
    /\ {timers[t].delay : t \in 1..6} = ReconnectDelays
    /\ reconnectDelay = 30000

\* The timers that are set and have neither fired nor been cleared, and the
\* EventSource objects that are not closed.
PendingTimers == {t \in 1..Len(timers) : timers[t].state = "pending"}
LiveSources == {s \in 1..Len(sources) : sources[s] # "closed"}

\* C38: under any sequence of login, logout, open, error and timer events at
\* most one reconnect timer is pending, at most one EventSource is open, and
\* no reconnect timer is pending while an EventSource is open.
OneTimerOrOneSource ==
    /\ Cardinality(PendingTimers) <= 1
    /\ Cardinality(LiveSources) <= 1
    /\ PendingTimers = {} \/ LiveSources = {}

\* A login replaced an open connection after two failed reconnects: the new
\* source is the only one not closed, and no timer is pending.
ReplacedOpenSource ==
    /\ Len(sources) = 2 /\ sources = <<"closed", "connecting">>
    /\ Len(timers) = 2 /\ \A t \in 1..2 : timers[t].state = "fired"
    /\ eventSource = 2 /\ reconnectTimeoutId = 0
    /\ reconnectDelay = 1000

\* While no room is set, nothing is connected or scheduled.
LoggedOutIsQuiet ==
    myRoomName = "" =>
        /\ eventSource = 0 /\ LiveSources = {}
        /\ reconnectTimeoutId = 0 /\ PendingTimers = {}

\* A step that leaves the client logged out creates no EventSource and sets
\* no timer.
NoAttemptWhileLoggedOut ==
    (myRoomName = "" /\ myRoomName' = "") =>
        /\ Len(sources') = Len(sources)
        /\ Len(timers') = Len(timers)

\* C39: after resetSession no EventSource is open, no reconnect timer is
\* pending and no connection to /events is attempted until the next login,
\* whatever errors or timers were outstanding at logout.
LogoutStopsReconnecting == []LoggedOutIsQuiet /\ [][NoAttemptWhileLoggedOut]_vars

\* The user logged out while a reconnect was scheduled after an error: the
\* source is closed and the timer was cleared before it fired.
LoggedOutWhileReconnecting ==
    /\ myRoomName = ""
    /\ sources = <<"closed">>
    /\ Len(timers) = 1 /\ timers[1].state = "cleared"
====
